---- MODULE Spec2Model ----
(***************************************************************************)
(* The client-side gallery viewer of MONO-gallery-submissions:             *)
(*   - ImageCache and PreloadQueue (src/templates/app_template.js 5-135),  *)
(*   - GalleryApp, the viewer (src/templates/app_template.js 137-1107).    *)
(*                                                                         *)
(* JavaScript runs one task at a time: an event handler, a timer callback  *)
(* or an image's onload/onerror runs to its end, and the promise reactions *)
(* it has made runnable run right after it, before the next task.  Each    *)
(* action below is one such task together with its promise reactions.      *)
(***************************************************************************)
EXTENDS Integers, Sequences, FiniteSets, TLC

\* ------------------------------------------------------------------ bounds
\* The calls of add/refresh an outside caller makes (Spec, SpecLive).
MaxRequests == 4
\* The largest maxConcurrent a PreloadQueue is constructed with (Spec, SpecLive).
MaxK == 2
\* The calls of updateImage (opens and navigations) in a run of the viewer.
MaxViews == 2
\* The loads that fail in a run of the viewer.
MaxErrors == 1
\* The opens that wait on their timer at one time.
MaxTimers == 1
\* The entries the session history grows to.
MaxHistory == 2
MaxCached == 1
MaxZoom == 1
MaxPan == 5
\* The fingers on the screen at one time.
MaxFingers == 2
\* The priorities outside callers use (the spec's scenario uses 5, 10 and 1).
Priorities == {1, 5, 10}
\* The image URLs outside callers ask for.
QueueUrls == {"a", "b", "c"}

\* No image: the value of a Map lookup that finds nothing.
NoImg == 0
\* NaN, and a numeric field that was never assigned (undefined), which is
\* NaN in every arithmetic operation and false in every comparison.
NaN == -999

VARIABLES
    \* PreloadQueue and ImageCache
    maxConcurrent,    \* PreloadQueue.maxConcurrent
    queue,            \* PreloadQueue.queue: the waiting tasks, head first
    activeLoads,      \* PreloadQueue.activeLoads
    loads,            \* the Image objects whose load is in flight, each with
                      \* the promise reactions waiting on its loadPromise
    cache,            \* ImageCache.cache: url -> image (NoImg: no entry)
    loadingPromises,  \* ImageCache.loadingPromises: url -> the image whose
                      \* loadPromise is recorded (NoImg: no entry)
    nextImg,          \* the number of Image objects created so far, plus one
    \* the outside callers of SpecQueue
    nextCaller,       \* the number of add/refresh calls made from outside, plus one
    results,          \* per outside call: the state of the promise it was given
    \* GalleryApp
    teams,            \* GalleryApp.teams, the dataset
    currentTeam, currentPhoto, currentRotation,
    currentScale,     \* in tenths: 10 is 1.0
    isModalOpen,
    isDragging, dragStartX, dragStartY,
    imageOffsetX, imageOffsetY, imageStartOffsetX, imageStartOffsetY,
    initialPinchDistance, initialScale,   \* set by a touchstart of two touches
    \* the page
    touches,          \* the fingers on the screen: <<those that came down on
                      \* the gallery image, those that came down elsewhere>>
    \* the page
    shown,            \* the modals that carry the class 'show'
    galleryImageSrc,  \* galleryImage.src
    detailsTeam,      \* the team the team-details panel was rendered for
    history,          \* the session history: the query of each entry
    histIdx,          \* the current entry; history[histIdx] is location.search
    timers,           \* the opens handleURLParams has deferred, oldest first
    \* bookkeeping
    views,            \* the calls of updateImage made so far
    errors,           \* the loads that have failed so far
    last              \* the task that ran last (what it was, on which image)

queueVars == <<maxConcurrent, queue, activeLoads, loads, cache, loadingPromises,
               nextImg>>
callerVars == <<nextCaller, results>>
posVars == <<currentTeam, currentPhoto>>
transformVars == <<currentRotation, currentScale, imageOffsetX, imageOffsetY>>
touchVars == <<initialPinchDistance, initialScale, touches>>
dragVars == <<isDragging, dragStartX, dragStartY, imageStartOffsetX,
              imageStartOffsetY, touchVars>>
modalVars == <<isModalOpen, shown, detailsTeam>>
urlVars == <<history, histIdx, timers>>
appVars == <<teams, posVars, transformVars, dragVars, modalVars, urlVars,
             galleryImageSrc, views>>
vars == <<queueVars, callerVars, appVars, errors, last>>

\* ------------------------------------------------------- promise reactions
\* What a caller does with the promise add/refresh returns.  An outside
\* caller (kind "caller", the number of its call) only observes how it
\* settles; updateImage (kind "view", the team_number it captured) sets the
\* displayed image; the preloads (kind "none") drop it.
Caller(n) == [kind |-> "caller", id |-> n]
ViewOf(team) == [kind |-> "view", id |-> team]
NoWaiter == [kind |-> "none", id |-> 0]

Pending == [st |-> "pending", img |-> NoImg]
Unused == [st |-> "unused", img |-> NoImg]
Resolved(img) == [st |-> "resolved", img |-> img]
Rejected == [st |-> "rejected", img |-> NoImg]

\* ------------------------------------------------------------ PreloadQueue
\* The queue and cache as one value, so that a handler's calls compose.
\* out: the promises of add() settled by this task, in settling order.
PQ == [maxConcurrent |-> maxConcurrent, queue |-> queue,
       activeLoads |-> activeLoads, loads |-> loads, cache |-> cache,
       loadingPromises |-> loadingPromises, nextImg |-> nextImg, out |-> <<>>]

Settle(q, w, outcome, url) ==
    [q EXCEPT !.out = Append(@, [w |-> w, res |-> outcome, url |-> url])]

\* add(), lines 65-76: before the first task of lower priority, else at the end.
RECURSIVE InsertAt(_, _, _)
InsertAt(s, task, i) ==
    IF i > Len(s) THEN Append(s, task)
    ELSE IF s[i].priority < task.priority
         THEN SubSeq(s, 1, i - 1) \o <<task>> \o SubSeq(s, i, Len(s))
         ELSE InsertAt(s, task, i + 1)

\* A variant that also passes the waiting tasks of equal priority.
RECURSIVE InsertBeforeEqual(_, _, _)
InsertBeforeEqual(s, task, i) ==
    IF i > Len(s) THEN Append(s, task)
    ELSE IF s[i].priority <= task.priority
         THEN SubSeq(s, 1, i - 1) \o <<task>> \o SubSeq(s, i, Len(s))
         ELSE InsertBeforeEqual(s, task, i + 1)

InsertUnstable(s, task) == InsertBeforeEqual(s, task, 1)

Insert(s, task) == InsertAt(s, task, 1)

\* loadImage(task): a new Image, counted active, its loadPromise recorded
\* under the task's url (replacing whatever was recorded there).
LoadImage(q, task) ==
    [q EXCEPT !.activeLoads = @ + 1,
              !.loads = @ \cup {[img |-> q.nextImg, url |-> task.url,
                                 priority |-> task.priority,
                                 task |-> task.waiter, attached |-> <<>>]},
              !.loadingPromises[task.url] = q.nextImg,
              !.nextImg = @ + 1]

\* A variant that starts one load too many.
RECURSIVE ProcessQueueOneMore(_)
ProcessQueueOneMore(q) ==
    IF q.activeLoads <= q.maxConcurrent /\ Len(q.queue) > 0
    THEN ProcessQueueOneMore(LoadImage([q EXCEPT !.queue = Tail(@)], Head(q.queue)))
    ELSE q

RECURSIVE ProcessQueue(_)
ProcessQueue(q) ==
    IF q.activeLoads < q.maxConcurrent /\ Len(q.queue) > 0
    THEN ProcessQueue(LoadImage([q EXCEPT !.queue = Tail(@)], Head(q.queue)))
    ELSE q

\* The load in flight whose loadPromise loadingPromises records under url.
LoadOf(q, img) == CHOOSE l \in q.loads : l.img = img

\* A variant that queues the task and leaves the dispatch to the next completion.
AddNoDispatch(q, url, priority, w) ==
    IF q.cache[url] # NoImg
    THEN Settle(q, w, Resolved(q.cache[url]), url)
    ELSE IF q.loadingPromises[url] # NoImg
    THEN LET l == LoadOf(q, q.loadingPromises[url])
         IN  [q EXCEPT !.loads = (@ \ {l}) \cup
                          {[l EXCEPT !.attached = Append(@, w)]}]
    ELSE [q EXCEPT !.queue =
             Insert(@, [url |-> url, priority |-> priority, waiter |-> w])]

Add(q, url, priority, w) ==
    IF q.cache[url] # NoImg
    THEN Settle(q, w, Resolved(q.cache[url]), url)
    ELSE IF q.loadingPromises[url] # NoImg
    THEN LET l == LoadOf(q, q.loadingPromises[url])
         IN  [q EXCEPT !.loads = (@ \ {l}) \cup
                          {[l EXCEPT !.attached = Append(@, w)]}]
    ELSE ProcessQueue([q EXCEPT !.queue =
             Insert(@, [url |-> url, priority |-> priority, waiter |-> w])])

\* A variant that leaves the cached entry in place.
RefreshKeepsCache(q, url, priority, w) == Add(q, url, priority, w)

\* refresh(imageUrl, priority): the cached entry is deleted, then add().
Refresh(q, url, priority, w) ==
    Add([q EXCEPT !.cache[url] = NoImg], url, priority, w)

\* The reactions of a settled loadPromise, in the order they were registered:
\* the delete of setLoadingPromise, task.resolve/task.reject, the attached
\* callers; then the finally of loadImage.
RECURSIVE SettleAll(_, _, _, _)
SettleAll(q, ws, outcome, url) ==
    IF ws = <<>> THEN q
    ELSE SettleAll(Settle(q, Head(ws), outcome, url), Tail(ws), outcome, url)

\* A variant that releases the slot and leaves the queue as it is.
FinallyNoProcess(q, l, outcome) ==
    LET q1 == [q EXCEPT !.loads = @ \ {l},
                        !.loadingPromises[l.url] = NoImg]
        q2 == SettleAll(q1, <<l.task>> \o l.attached, outcome, l.url)
    IN  [q2 EXCEPT !.activeLoads = @ - 1]

Finally(q, l, outcome) ==
    LET q1 == [q EXCEPT !.loads = @ \ {l},
                        !.loadingPromises[l.url] = NoImg]
        q2 == SettleAll(q1, <<l.task>> \o l.attached, outcome, l.url)
    IN  ProcessQueue([q2 EXCEPT !.activeLoads = @ - 1])

OnLoad(q, l) ==
    Finally([q EXCEPT !.cache[l.url] = l.img], l, Resolved(l.img))

\* A variant that rejects the task's caller only.
OnErrorDropsAttached(q, l) ==
    Finally([q EXCEPT !.loads = (@ \ {l}) \cup {[l EXCEPT !.attached = <<>>]}],
            [l EXCEPT !.attached = <<>>], Rejected)

\* A variant whose slot is released on success only.
OnErrorSlotLeak(q, l) ==
    SettleAll([q EXCEPT !.loads = @ \ {l}, !.loadingPromises[l.url] = NoImg],
              <<l.task>> \o l.attached, Rejected, l.url)

\* A variant that caches the image whose load failed.
OnErrorCaches(q, l) ==
    Finally([q EXCEPT !.cache[l.url] = l.img], l, Rejected)

OnError(q, l) == Finally(q, l, Rejected)

\* ------------------------------------------------------------------ dataset
\* A team record: its number and its image urls.
Team(n, imgs) == [team_number |-> n, images |-> imgs]
\* The datasets the viewer is constructed with.
Datasets == {<<Team(1, <<"1/1", "1/2", "1/3", "1/4">>),
               Team(2, <<"2/1", "2/2", "2/3", "2/4">>)>>}

\* The datasets navigation is checked on: the two full teams, three full
\* teams out of order, and a team with two images only.
NavDatasets ==
    Datasets \cup
    {<<Team(2, <<"2/1", "2/2", "2/3", "2/4">>),
       Team(1, <<"1/1", "1/2", "1/3", "1/4">>),
       Team(3, <<"3/1", "3/2", "3/3", "3/4">>)>>,
     <<Team(1, <<"1/1", "1/2">>),
       Team(2, <<"2/1", "2/2", "2/3", "2/4">>)>>}

Undefined == "undefined"      \* team.images[i] for an i outside the array
Placeholder == "placeholder"  \* this.placeholderImage, a data: url
NoSrc == ""                   \* galleryImage.src before the first updateImage
NoParams == <<0, 0>>       \* a query without team and photo (parseInt gives NaN)

\* The queries the page is loaded with: none, a photo of the dataset, a team
\* that does not exist, a photo number past the team's images.
InitialQueries == {NoParams, <<1, 2>>, <<9, 1>>, <<1, 7>>}

\* Program constants.
GalleryConcurrent == 6
PhotosPerTeam == 4
ViewPriority == 200
AdjacentPriority == 80
FirstPreloadPriority == 50
PreloadPriority == 10
PreloadTeams == 5
PreloadTeams001 == 3
UnitScale == 10
MinScale == 3
MaxScale == 50
SizeStep == 2
WheelStep == 1

Min(a, b) == IF a < b THEN a ELSE b
Max(a, b) == IF a > b THEN a ELSE b
\* JavaScript's +, Math.min, Math.max and <= on numbers that may be NaN.
Plus(a, b) == IF a = NaN \/ b = NaN THEN NaN ELSE a + b
MathMin(a, b) == IF a = NaN \/ b = NaN THEN NaN ELSE Min(a, b)
MathMax(a, b) == IF a = NaN \/ b = NaN THEN NaN ELSE Max(a, b)
LessEq(a, b) == a # NaN /\ b # NaN /\ a <= b

\* this.teams.find(t => t.team_number === n): the index of the first such
\* team, 0 when there is none.
RECURSIVE FindFrom(_, _, _)
FindFrom(ts, n, i) ==
    IF i > Len(ts) THEN 0
    ELSE IF ts[i].team_number = n THEN i ELSE FindFrom(ts, n, i + 1)
TeamIdx(n) == FindFrom(teams, n, 1)

\* team.images[i], i counted from 0 as in the source.
ImageAt(team, i) ==
    IF i >= 0 /\ i < Len(team.images) THEN team.images[i + 1] ELSE Undefined

UrlsOf(ts) == UNION {{ts[i].images[j] : j \in DOMAIN ts[i].images} : i \in DOMAIN ts}

\* ---------------------------------------------------------------- GalleryApp
\* preloadAdjacentImages(): the previous and the next photo of the team, when
\* the team has them.
PreloadAdjacentImages(q, team, photo) ==
    LET within(i) == i >= 0 /\ i < Len(team.images)
        q1 == IF within(photo - 2)
              THEN Add(q, ImageAt(team, photo - 2), AdjacentPriority, NoWaiter)
              ELSE q
    IN  IF within(photo)
        THEN Add(q1, ImageAt(team, photo), AdjacentPriority, NoWaiter)
        ELSE q1

\* updateImage(), its calls on the queue: nothing when the team is not found.
UpdateImageQ(q, t, p) ==
    LET i == TeamIdx(t)
    IN  IF i = 0 THEN q
        ELSE PreloadAdjacentImages(
                 Refresh(q, ImageAt(teams[i], p - 1), ViewPriority,
                         ViewOf(teams[i].team_number)),
                 teams[i], p)

\* preloadImages(): every image of the first five teams, in dataset order.
RECURSIVE PreloadFrom(_, _, _, _)
PreloadFrom(q, ts, i, j) ==
    IF i > Min(Len(ts), PreloadTeams) THEN q
    ELSE IF j > Len(ts[i].images) THEN PreloadFrom(q, ts, i + 1, 1)
    ELSE PreloadFrom(Add(q, ts[i].images[j],
                         IF i = 1 /\ j = 1 THEN FirstPreloadPriority
                                           ELSE PreloadPriority,
                         NoWaiter),
                     ts, i, j + 1)
PreloadImages(q, ts) == PreloadFrom(q, ts, 1, 1)

\* The reactions updateImage attaches to the promise of refresh: on success
\* the image is shown if the modal is open and the team is the captured one
\* (the third test, currentPhoto === currentPhoto, holds always); on failure
\* the placeholder is shown.
ViewReaction(src, o, open, team) ==
    IF o.w.kind # "view" THEN src
    ELSE IF o.res.st = "resolved"
         THEN IF open /\ team = o.w.id THEN o.url ELSE src
         ELSE Placeholder

RECURSIVE ApplyViews(_, _, _, _)
ApplyViews(src, out, open, team) ==
    IF out = <<>> THEN src
    ELSE ApplyViews(ViewReaction(src, Head(out), open, team), Tail(out), open, team)

\* teams.map(t => t.team_number).sort((a, b) => a - b)
RECURSIVE SortInsert(_, _)
SortInsert(s, n) ==
    IF s = <<>> THEN <<n>>
    ELSE IF n < Head(s) THEN <<n>> \o s
         ELSE <<Head(s)>> \o SortInsert(Tail(s), n)
RECURSIVE SortedNumbers(_, _)
SortedNumbers(ts, i) ==
    IF i = 0 THEN <<>> ELSE SortInsert(SortedNumbers(ts, i - 1), ts[i].team_number)

\* indexOf, counted from 0; -1 when absent.
RECURSIVE IndexOf(_, _, _)
IndexOf(s, n, i) ==
    IF i > Len(s) THEN -1 ELSE IF s[i] = n THEN i - 1 ELSE IndexOf(s, n, i + 1)

\* navigateTeam on the team numbers in dataset order, without the sort.
NavigateTeamUnsorted(cur, direction) ==
    LET teamNumbers == [i \in DOMAIN teams |-> teams[i].team_number]
        newIndex == IndexOf(teamNumbers, cur, 1) + direction
        wrapped == IF newIndex >= Len(teamNumbers) THEN 0
                   ELSE IF newIndex < 0 THEN Len(teamNumbers) - 1
                   ELSE newIndex
    IN  teamNumbers[wrapped + 1]

\* navigateTeam(direction): the value it leaves in currentTeam.
NavigateTeam(cur, direction) ==
    LET teamNumbers == SortedNumbers(teams, Len(teams))
        newIndex == IndexOf(teamNumbers, cur, 1) + direction
        wrapped == IF newIndex >= Len(teamNumbers) THEN 0
                   ELSE IF newIndex < 0 THEN Len(teamNumbers) - 1
                   ELSE newIndex
    IN  teamNumbers[wrapped + 1]

\* navigateImage stepping past the photos of a team without changing team.
NavigateImageWrapsInTeam(team, photo, direction) ==
    LET p1 == photo + direction
    IN  IF p1 > PhotosPerTeam THEN <<team, 1>>
        ELSE IF p1 < 1 THEN <<team, PhotosPerTeam>>
        ELSE <<team, p1>>

\* navigateImage entering the next team at its second photo.
NavigateImageWrapsToSecond(team, photo, direction) ==
    LET p1 == photo + direction
    IN  IF p1 > PhotosPerTeam THEN <<NavigateTeam(team, 1), 2>>
        ELSE IF p1 < 1 THEN <<NavigateTeam(team, -1), PhotosPerTeam>>
        ELSE <<team, p1>>

\* navigateImage(direction): the (currentTeam, currentPhoto) it leaves.
NavigateImagePos(team, photo, direction) ==
    LET p1 == photo + direction
    IN  IF p1 > PhotosPerTeam THEN <<NavigateTeam(team, 1), 1>>
        ELSE IF p1 < 1 THEN <<NavigateTeam(team, -1), PhotosPerTeam>>
        ELSE <<team, p1>>

\* The modals of the page; `shown` holds those with the class show.
Modals == {"gallery", "stats", "teamDetails"}
\* closeAllModals()
CloseAllModals(visible) == visible \ Modals
\* showModal without its hiding of the other modals.
ShowModalKeepsOthers(visible, type) == visible \cup {type}
\* showModal(type): hides every modal, then shows the requested one.
ShowModal(visible, type) == (visible \ Modals) \cup {type}

\* rotateImage(degrees): JavaScript's % keeps the sign of the dividend.
Rem(a, n) == IF a >= 0 THEN a % n ELSE -((-a) % n)
\* rotateImage without its correction of a negative remainder.
RotateByKeepsSign(rotation, degrees) == Rem(rotation + degrees, 360)

RotateBy(rotation, degrees) ==
    LET r == Rem(rotation + degrees, 360)
    IN  IF r < 0 THEN r + 360 ELSE r

\* ----------------------------------------------------------------- actions
\* The outside callers' promises after a task that settled q.out.
RECURSIVE Deliver(_, _)
Deliver(res, out) ==
    IF out = <<>> THEN res
    ELSE LET o == Head(out)
         IN  Deliver(IF o.w.kind = "caller"
                     THEN [res EXCEPT ![o.w.id] = o.res] ELSE res,
                     Tail(out))

SetQueue(q) ==
    /\ queue' = q.queue
    /\ activeLoads' = q.activeLoads
    /\ loads' = q.loads
    /\ cache' = q.cache
    /\ loadingPromises' = q.loadingPromises
    /\ nextImg' = q.nextImg
    /\ UNCHANGED maxConcurrent

Op(op, img) == [op |-> op, img |-> img]

\* A page without a GalleryApp: the state of the viewer's variables in the
\* specifications of the queue alone.
NoApp ==
    /\ teams = <<>>
    /\ currentTeam = 1 /\ currentPhoto = 1
    /\ currentRotation = 0 /\ currentScale = UnitScale
    /\ isModalOpen = FALSE
    /\ isDragging = FALSE /\ dragStartX = 0 /\ dragStartY = 0
    /\ imageOffsetX = 0 /\ imageOffsetY = 0
    /\ imageStartOffsetX = 0 /\ imageStartOffsetY = 0
    /\ initialPinchDistance = NaN /\ initialScale = NaN
    /\ touches = <<0, 0>>
    /\ shown = {}
    /\ galleryImageSrc = NoSrc
    /\ detailsTeam = 0
    /\ history = <<NoParams>> /\ histIdx = 1 /\ timers = <<>>
    /\ views = 0

\* new PreloadQueue(k), on the urls of the given set.
NewQueue(k, urls) ==
    [maxConcurrent |-> k, queue |-> <<>>, activeLoads |-> 0, loads |-> {},
     cache |-> [u \in urls |-> NoImg],
     loadingPromises |-> [u \in urls |-> NoImg], nextImg |-> 1, out |-> <<>>]

IsQueue(q) ==
    /\ maxConcurrent = q.maxConcurrent
    /\ queue = q.queue
    /\ activeLoads = q.activeLoads
    /\ loads = q.loads
    /\ cache = q.cache
    /\ loadingPromises = q.loadingPromises
    /\ nextImg = q.nextImg

Init ==
    /\ \E k \in 1..MaxK : IsQueue(NewQueue(k, QueueUrls))
    /\ nextCaller = 1
    /\ results = [c \in 1..MaxRequests |-> Unused]
    /\ NoApp
    /\ errors = 0
    /\ last = Op("init", NoImg)

\* add() that drops the cached image and loads the url again.
CallAddReloads(url, priority) ==
    /\ nextCaller <= MaxRequests
    /\ LET q == Refresh(PQ, url, priority, Caller(nextCaller))
       IN  /\ SetQueue(q)
           /\ results' = Deliver([results EXCEPT ![nextCaller] = Pending], q.out)
    /\ nextCaller' = nextCaller + 1
    /\ last' = Op("add", NoImg)
    /\ UNCHANGED <<appVars, errors>>

CallAdd(url, priority) ==
    /\ nextCaller <= MaxRequests
    /\ LET q == Add(PQ, url, priority, Caller(nextCaller))
       IN  /\ SetQueue(q)
           /\ results' = Deliver([results EXCEPT ![nextCaller] = Pending], q.out)
    /\ nextCaller' = nextCaller + 1
    /\ last' = Op("add", NoImg)
    /\ UNCHANGED <<appVars, errors>>

CallRefresh(url, priority) ==
    /\ nextCaller <= MaxRequests
    /\ LET q == Refresh(PQ, url, priority, Caller(nextCaller))
       IN  /\ SetQueue(q)
           /\ results' = Deliver([results EXCEPT ![nextCaller] = Pending], q.out)
    /\ nextCaller' = nextCaller + 1
    /\ last' = Op("refresh", NoImg)
    /\ UNCHANGED <<appVars, errors>>

\* img.onload and the promise reactions it makes runnable.  The browser finds
\* no image at the url "undefined".
ImgOnLoad(l) ==
    /\ l \in loads
    /\ l.url # Undefined
    /\ LET q == OnLoad(PQ, l)
       IN  /\ SetQueue(q)
           /\ results' = Deliver(results, q.out)
           /\ galleryImageSrc' =
                  ApplyViews(galleryImageSrc, q.out, isModalOpen, currentTeam)
    /\ last' = Op("load", l.img)
    /\ UNCHANGED <<nextCaller, teams, posVars, transformVars, dragVars,
                   modalVars, urlVars, views, errors>>

\* img.onerror and the promise reactions it makes runnable.
ImgOnError(l) ==
    /\ l \in loads
    /\ LET q == OnError(PQ, l)
       IN  /\ SetQueue(q)
           /\ results' = Deliver(results, q.out)
           /\ galleryImageSrc' =
                  ApplyViews(galleryImageSrc, q.out, isModalOpen, currentTeam)
    /\ errors' = errors + 1
    /\ last' = Op("error", l.img)
    /\ UNCHANGED <<nextCaller, teams, posVars, transformVars, dragVars,
                   modalVars, urlVars, views>>

Next ==
    \/ \E u \in QueueUrls, p \in Priorities : CallAdd(u, p)
    \/ \E u \in QueueUrls, p \in Priorities : CallRefresh(u, p)
    \/ \E l \in loads : ImgOnLoad(l)
    \/ \E l \in loads : ImgOnError(l)

Spec == Init /\ [][Next]_vars

\* Every started load completes: the browser fires onload or onerror.
Completion == \E l \in loads : ImgOnLoad(l) \/ ImgOnError(l)
\* The same program with fewer urls and priorities to choose from.
LiveUrls == {"a", "b"}
LivePriorities == {1, 10}
NextLive ==
    \/ \E u \in LiveUrls, p \in LivePriorities : CallAdd(u, p)
    \/ \E u \in LiveUrls, p \in LivePriorities : CallRefresh(u, p)
    \/ \E l \in loads : ImgOnLoad(l)
    \/ \E l \in loads : ImgOnError(l)
SpecLive == Init /\ [][NextLive]_vars /\ WF_vars(Completion)

\* ------------------------------------------------------ GalleryApp, actions
\* A handler runs when its event can reach it: a key press anywhere, a click
\* on an element of the page, or on an element of a modal that is shown.
\* The thumbnails of the grid and the stats button belong to the page, the
\* close, prev, next, rotate, size and team-info controls to the gallery modal.


\* handleURLParams deferring the open with team and photo exchanged.
HandleURLParamsSwaps(query) ==
    IF query[1] # 0 /\ query[2] # 0
    THEN Append(timers, <<query[2], query[1]>>) ELSE timers

\* handleURLParams(): the timers after it has read the query.
HandleURLParams(query) ==
    IF query[1] # 0 /\ query[2] # 0 THEN Append(timers, query) ELSE timers

\* new GalleryApp() on a dataset and a query: the constructor and init().
InitViewerOn(datasets, queries) ==
    \E ds \in datasets, query \in queries :
        /\ teams = ds
        /\ currentTeam = 1 /\ currentPhoto = 1
        /\ currentRotation = 0 /\ currentScale = UnitScale
        /\ isModalOpen = FALSE
        /\ isDragging = FALSE /\ dragStartX = 0 /\ dragStartY = 0
        /\ imageOffsetX = 0 /\ imageOffsetY = 0
        /\ imageStartOffsetX = 0 /\ imageStartOffsetY = 0
        /\ initialPinchDistance = NaN /\ initialScale = NaN
        /\ touches = <<0, 0>>
        /\ shown = {}
        /\ galleryImageSrc = NoSrc
        /\ detailsTeam = 0
        /\ history = <<query>> /\ histIdx = 1
        /\ timers = IF query[1] # 0 /\ query[2] # 0 THEN <<query>> ELSE <<>>
        /\ IsQueue(PreloadImages(
               NewQueue(GalleryConcurrent, UrlsOf(ds) \cup {Undefined}), ds))
        /\ nextCaller = 1
        /\ results = [c \in 1..MaxRequests |-> Unused]
        /\ views = 0
        /\ errors = 0
        /\ last = Op("init", NoImg)

InitViewer == InitViewerOn(Datasets, InitialQueries)

ResetImageState ==
    /\ currentRotation' = 0
    /\ currentScale' = UnitScale
    /\ imageOffsetX' = 0
    /\ imageOffsetY' = 0

\* updateImage() with currentTeam = t and currentPhoto = p: the placeholder,
\* the refresh of the photo and the preload of its neighbours.  (Its reset of
\* the transform is stated by the handlers.)
UpdateImage(t, p, open) ==
    /\ views < MaxViews
    /\ views' = views + 1
    /\ LET q == UpdateImageQ(PQ, t, p)
       IN  /\ SetQueue(q)
           /\ galleryImageSrc' =
                  ApplyViews(IF TeamIdx(t) # 0 THEN Placeholder
                                               ELSE galleryImageSrc,
                             q.out, open, t)

\* updateURL without its write to the history entry.
UpdateURLKeeps(t, p) == UNCHANGED <<history, histIdx>>

\* updateURL(): history.replaceState
UpdateURL(t, p) ==
    /\ history' = [history EXCEPT ![histIdx] = <<t, p>>]
    /\ histIdx' = histIdx

\* openGallery without its reset of the rotation.
OpenGalleryKeepsRotation(t, p) ==
    /\ currentTeam' = t
    /\ currentPhoto' = p
    /\ currentScale' = UnitScale
    /\ imageOffsetX' = 0
    /\ imageOffsetY' = 0
    /\ UNCHANGED currentRotation
    /\ shown' = ShowModal(shown, "gallery")
    /\ isModalOpen' = TRUE
    /\ UpdateImage(t, p, TRUE)
    /\ UpdateURL(t, p)
    /\ UNCHANGED <<teams, dragVars, detailsTeam, callerVars, errors>>

\* openGallery(teamNumber, photoNumber)
OpenGallery(t, p) ==
    /\ currentTeam' = t
    /\ currentPhoto' = p
    /\ ResetImageState
    /\ shown' = ShowModal(shown, "gallery")
    /\ isModalOpen' = TRUE
    /\ UpdateImage(t, p, TRUE)
    /\ UpdateURL(t, p)
    /\ UNCHANGED <<teams, dragVars, detailsTeam, callerVars, errors>>

\* A click on thumbnail p of team t in the grid.
ClickThumbnail(t, p) ==
    /\ \E i \in DOMAIN teams :
           teams[i].team_number = t /\ p \in DOMAIN teams[i].images
    /\ OpenGallery(t, p)
    /\ UNCHANGED timers
    /\ last' = Op("open", NoImg)

\* The timer of handleURLParams fires.
TimerFires ==
    /\ timers # <<>>
    /\ OpenGallery(Head(timers)[1], Head(timers)[2])
    /\ timers' = Tail(timers)
    /\ last' = Op("timer", NoImg)

\* The user steps back or forward in the session history: popstate.
PopState(d) ==
    /\ histIdx + d \in 1..Len(history)
    /\ Len(timers) < MaxTimers
    /\ histIdx' = histIdx + d
    /\ timers' = HandleURLParams(history[histIdx + d])
    /\ last' = Op("popstate", NoImg)
    /\ UNCHANGED <<queueVars, callerVars, teams, posVars, transformVars,
                   dragVars, modalVars, history, galleryImageSrc, views, errors>>

\* navigateImage(direction): ArrowLeft/ArrowRight, prevBtn/nextBtn.
NavigateImage(direction) ==
    /\ isModalOpen \/ "gallery" \in shown
    /\ LET pos == NavigateImagePos(currentTeam, currentPhoto, direction)
           t2 == pos[1]
           p2 == pos[2]
       IN  /\ currentTeam' = t2
           /\ currentPhoto' = p2
           /\ UpdateImage(t2, p2, isModalOpen)
           /\ IF TeamIdx(t2) # 0 THEN ResetImageState
                                 ELSE UNCHANGED transformVars
           /\ UpdateURL(t2, p2)
    /\ last' = Op("navigateImage", NoImg)
    /\ UNCHANGED <<teams, dragVars, modalVars, timers, callerVars, errors>>

\* ArrowUp/ArrowDown: navigateTeam(direction); updateImage(); updateURL().
KeyArrowUpDown(direction) ==
    /\ isModalOpen
    /\ LET t2 == NavigateTeam(currentTeam, direction)
       IN  /\ currentTeam' = t2
           /\ UNCHANGED currentPhoto
           /\ UpdateImage(t2, currentPhoto, isModalOpen)
           /\ IF TeamIdx(t2) # 0 THEN ResetImageState
                                 ELSE UNCHANGED transformVars
           /\ UpdateURL(t2, currentPhoto)
    /\ last' = Op("navigateTeam", NoImg)
    /\ UNCHANGED <<teams, dragVars, modalVars, timers, callerVars, errors>>

\* Handlers that touch neither the queue nor the position.
Still == UNCHANGED <<queueVars, callerVars, teams, posVars, galleryImageSrc,
                     views, errors>>

\* closeModal replacing the current history entry instead of pushing one.
CloseModalReplaces ==
    /\ isModalOpen \/ "gallery" \in shown
    /\ histIdx < MaxHistory
    /\ shown' = CloseAllModals(shown)
    /\ isModalOpen' = FALSE
    /\ history' = [history EXCEPT ![histIdx] = NoParams]
    /\ histIdx' = histIdx
    /\ ResetImageState
    /\ last' = Op("close", NoImg)
    /\ Still
    /\ UNCHANGED <<dragVars, detailsTeam, timers>>

\* closeModal(): Escape, the close button, a click on the overlay.
CloseModal ==
    /\ isModalOpen \/ "gallery" \in shown
    /\ histIdx < MaxHistory
    /\ shown' = CloseAllModals(shown)
    /\ isModalOpen' = FALSE
    /\ history' = Append(SubSeq(history, 1, histIdx), NoParams)
    /\ histIdx' = histIdx + 1
    /\ ResetImageState
    /\ last' = Op("close", NoImg)
    /\ Still
    /\ UNCHANGED <<dragVars, detailsTeam, timers>>

\* openStatsModal(): showModal('stats')
OpenStatsModal ==
    /\ shown' = ShowModal(shown, "stats")
    /\ last' = Op("openStats", NoImg)
    /\ Still
    /\ UNCHANGED <<transformVars, dragVars, isModalOpen, detailsTeam, urlVars>>

\* closeStatsModal(): closeAllModals()
CloseStatsModal ==
    /\ "stats" \in shown
    /\ shown' = CloseAllModals(shown)
    /\ last' = Op("closeStats", NoImg)
    /\ Still
    /\ UNCHANGED <<transformVars, dragVars, isModalOpen, detailsTeam, urlVars>>

\* openTeamDetailsModal(): the key i, a click on the team info.
OpenTeamDetailsModal ==
    /\ isModalOpen
    /\ TeamIdx(currentTeam) # 0
    /\ shown' = ShowModal(shown, "teamDetails")
    /\ detailsTeam' = currentTeam
    /\ last' = Op("openTeamDetails", NoImg)
    /\ Still
    /\ UNCHANGED <<transformVars, dragVars, isModalOpen, urlVars>>

\* closeTeamDetailsModal()
CloseTeamDetailsModal ==
    /\ "teamDetails" \in shown
    /\ shown' = IF isModalOpen THEN ShowModal(CloseAllModals(shown), "gallery")
                                ELSE CloseAllModals(shown)
    /\ last' = Op("closeTeamDetails", NoImg)
    /\ Still
    /\ UNCHANGED <<transformVars, dragVars, isModalOpen, detailsTeam, urlVars>>

\* A click on photo p of the team-details panel:
\* closeTeamDetailsModal(); openGallery(team_number, p).
DetailsThumbnail(p) ==
    /\ "teamDetails" \in shown
    /\ TeamIdx(detailsTeam) # 0
    /\ p \in DOMAIN teams[TeamIdx(detailsTeam)].images
    /\ OpenGallery(detailsTeam, p)
    /\ UNCHANGED timers
    /\ last' = Op("open", NoImg)

\* rotateImage(degrees): the keys r and l, the rotate buttons.
RotateImage(degrees) ==
    /\ isModalOpen \/ "gallery" \in shown
    /\ currentRotation' = RotateBy(currentRotation, degrees)
    /\ last' = Op("rotate", NoImg)
    /\ Still
    /\ UNCHANGED <<currentScale, imageOffsetX, imageOffsetY, dragVars,
                   modalVars, urlVars>>

\* increaseSize(): the keys = and +, the size button.
IncreaseSize ==
    /\ isModalOpen \/ "gallery" \in shown
    /\ currentScale' = MathMin(Plus(currentScale, SizeStep), MaxScale)
    /\ last' = Op("increaseSize", NoImg)
    /\ Still
    /\ UNCHANGED <<currentRotation, imageOffsetX, imageOffsetY, dragVars,
                   modalVars, urlVars>>

\* decreaseSize(): the key -, the size button.
DecreaseSize ==
    /\ isModalOpen \/ "gallery" \in shown
    /\ currentScale' = MathMax(Plus(currentScale, -SizeStep), MinScale)
    /\ IF LessEq(currentScale', UnitScale)
       THEN imageOffsetX' = 0 /\ imageOffsetY' = 0
       ELSE UNCHANGED <<imageOffsetX, imageOffsetY>>
    /\ last' = Op("decreaseSize", NoImg)
    /\ Still
    /\ UNCHANGED <<currentRotation, dragVars, modalVars, urlVars>>

\* handleMouseDown(e) on the gallery image.
MouseDown(x, y) ==
    /\ "gallery" \in shown
    /\ isModalOpen
    /\ isDragging' = TRUE
    /\ dragStartX' = x
    /\ dragStartY' = y
    /\ imageStartOffsetX' = imageOffsetX
    /\ imageStartOffsetY' = imageOffsetY
    /\ last' = Op("mousedown", NoImg)
    /\ Still
    /\ UNCHANGED <<transformVars, touchVars, modalVars, urlVars>>

\* handleMouseMove(e) anywhere in the document.
MouseMove(x, y) ==
    /\ isDragging
    /\ isModalOpen
    /\ imageOffsetX' = imageStartOffsetX + (x - dragStartX)
    /\ imageOffsetY' = imageStartOffsetY + (y - dragStartY)
    /\ imageOffsetX' \in -MaxPan..MaxPan
    /\ imageOffsetY' \in -MaxPan..MaxPan
    /\ last' = Op("mousemove", NoImg)
    /\ Still
    /\ UNCHANGED <<currentRotation, currentScale, dragVars, modalVars, urlVars>>

\* handleMouseUp()
MouseUp ==
    /\ isDragging
    /\ isDragging' = FALSE
    /\ last' = Op("mouseup", NoImg)
    /\ Still
    /\ UNCHANGED <<transformVars, dragStartX, dragStartY, imageStartOffsetX,
                   imageStartOffsetY, touchVars, modalVars, urlVars>>

TeamNumbers == {teams[i].team_number : i \in DOMAIN teams}
Photos == 1..PhotosPerTeam
\* The thumbnails of the grid that are clicked.
Clicks == {<<1, 1>>, <<2, 4>>}
\* The pointer positions of a drag: where it is pressed, where it moves to.
PressAt == <<0, 0>>
Points == {<<0, 0>>, <<5, 3>>}
\* The urls the cache holds an image of.
Cached == {u \in DOMAIN cache : cache[u] # NoImg}

\* The viewer with its loads: opening, navigation, closing, the history.
NextViewer ==
    \/ \E c \in Clicks : ClickThumbnail(c[1], c[2])
    \/ TimerFires
    \/ \E d \in {-1, 1} : PopState(d)
    \/ \E d \in {-1, 1} : NavigateImage(d)
    \/ \E d \in {-1, 1} : KeyArrowUpDown(d)
    \/ CloseModal
    \/ \E l \in loads : Cardinality(Cached) < MaxCached /\ ImgOnLoad(l)
    \/ \E l \in loads : errors < MaxErrors /\ ImgOnError(l)

SpecViewer == InitViewer /\ [][NextViewer]_vars

\* The viewer with its modals and the transform of the image, no load
\* completing meanwhile.
NextTransform ==
    \/ \E c \in Clicks : ClickThumbnail(c[1], c[2])
    \/ TimerFires
    \/ \E d \in {-1, 1} : NavigateImage(d)
    \/ CloseModal
    \/ OpenStatsModal
    \/ CloseStatsModal
    \/ OpenTeamDetailsModal
    \/ CloseTeamDetailsModal
    \/ \E p \in Photos : DetailsThumbnail(p)
    \/ \E degrees \in {-90, 90} : RotateImage(degrees)
    \/ currentScale < UnitScale + MaxZoom * SizeStep /\ IncreaseSize
    \/ currentScale > UnitScale - MaxZoom * SizeStep /\ DecreaseSize
    \/ MouseDown(PressAt[1], PressAt[2])
    \/ \E pt \in Points : MouseMove(pt[1], pt[2])
    \/ MouseUp

SpecTransform == InitViewer /\ [][NextTransform]_vars

\* Navigation alone, on the datasets of NavDatasets, from every thumbnail.
NextNav ==
    \/ \E i \in DOMAIN teams : \E p \in DOMAIN teams[i].images :
           ClickThumbnail(teams[i].team_number, p)
    \/ \E d \in {-1, 1} : NavigateImage(d)
    \/ \E d \in {-1, 1} : KeyArrowUpDown(d)
    \/ CloseModal

InitNav == InitViewerOn(NavDatasets, {NoParams})
SpecNav == InitNav /\ [][NextNav]_vars

\* ------------------------------------------- GalleryApp of src/unnamed/part_001
\* The second viewer: the same state, no PreloadQueue.  loadImage starts one
\* Image per call for a url that imageCache does not hold; `loads` holds the
\* Images in flight, `cache` is imageCache, the variables of the queue stay
\* as NoQueue leaves them.  Its handlers carry the suffix 001; the handlers
\* whose code is the same as in app_template.js are used as they are.

NoQueue ==
    /\ maxConcurrent = 0
    /\ queue = <<>>
    /\ activeLoads = 0
    /\ \A u \in DOMAIN loadingPromises : loadingPromises[u] = NoImg

\* loadImage(url) for a url that is not cached: the Images in flight after it.
\* w is the reaction attached to the returned promise.
LoadImage001(ls, img, url, w) ==
    ls \cup {[img |-> img, url |-> url, priority |-> 0, task |-> w,
              attached |-> <<>>]}

\* preloadCriticalImages(): the first image of the first three teams.
PreloadCritical001(ts) ==
    {[img |-> i, url |-> ts[i].images[1], priority |-> 0, task |-> NoWaiter,
      attached |-> <<>>] : i \in {j \in DOMAIN ts : j <= PreloadTeams001}}

\* The queries the page of part_001 is loaded with.
InitialQueries001 == {NoParams, <<1, 2>>}

\* new GalleryApp() of part_001 on a dataset and a query.
InitPart001 ==
    \E ds \in Datasets, query \in InitialQueries001 :
        /\ teams = ds
        /\ currentTeam = 1 /\ currentPhoto = 1
        /\ currentRotation = 0 /\ currentScale = UnitScale
        /\ isModalOpen = FALSE
        /\ isDragging = FALSE /\ dragStartX = 0 /\ dragStartY = 0
        /\ imageOffsetX = 0 /\ imageOffsetY = 0
        /\ imageStartOffsetX = 0 /\ imageStartOffsetY = 0
        /\ initialPinchDistance = NaN /\ initialScale = NaN
        /\ touches = <<0, 0>>
        /\ shown = {}
        /\ galleryImageSrc = NoSrc
        /\ detailsTeam = 0
        /\ history = <<query>> /\ histIdx = 1
        /\ timers = IF query[1] # 0 /\ query[2] # 0 THEN <<query>> ELSE <<>>
        /\ cache = [u \in UrlsOf(ds) \cup {Undefined} |-> NoImg]
        /\ loadingPromises = [u \in UrlsOf(ds) \cup {Undefined} |-> NoImg]
        /\ NoQueue
        /\ loads = PreloadCritical001(ds)
        /\ nextImg = Min(Len(ds), PreloadTeams001) + 1
        /\ nextCaller = 1
        /\ results = [c \in 1..MaxRequests |-> Unused]
        /\ views = 0
        /\ errors = 0
        /\ last = Op("init", NoImg)

QueueStill001 == UNCHANGED <<maxConcurrent, queue, activeLoads, loadingPromises>>

\* updateImage() of part_001 with currentTeam = t and currentPhoto = p: the
\* cached image is shown at once, another is requested.
UpdateImage001(t, p) ==
    /\ views < MaxViews
    /\ views' = views + 1
    /\ QueueStill001
    /\ UNCHANGED cache
    /\ LET i == TeamIdx(t)
           url == ImageAt(teams[i], p - 1)
       IN  IF i = 0
           THEN UNCHANGED <<loads, nextImg, galleryImageSrc>>
           ELSE IF cache[url] # NoImg
           THEN /\ galleryImageSrc' = url
                /\ UNCHANGED <<loads, nextImg>>
           ELSE /\ loads' = LoadImage001(loads, nextImg, url, ViewOf(t))
                /\ nextImg' = nextImg + 1
                /\ UNCHANGED galleryImageSrc

\* openGallery(teamNumber, photoNumber) of part_001
OpenGallery001(t, p) ==
    /\ currentTeam' = t
    /\ currentPhoto' = p
    /\ ResetImageState
    /\ shown' = ShowModal(shown, "gallery")
    /\ isModalOpen' = TRUE
    /\ UpdateImage001(t, p)
    /\ UpdateURL(t, p)
    /\ UNCHANGED <<teams, dragVars, detailsTeam, callerVars, errors>>

ClickThumbnail001(t, p) ==
    /\ \E i \in DOMAIN teams :
           teams[i].team_number = t /\ p \in DOMAIN teams[i].images
    /\ OpenGallery001(t, p)
    /\ UNCHANGED timers
    /\ last' = Op("open", NoImg)

TimerFires001 ==
    /\ timers # <<>>
    /\ OpenGallery001(Head(timers)[1], Head(timers)[2])
    /\ timers' = Tail(timers)
    /\ last' = Op("timer", NoImg)

\* A click on photo p of the team-details panel of part_001.
DetailsThumbnail001(p) ==
    /\ "teamDetails" \in shown
    /\ TeamIdx(detailsTeam) # 0
    /\ p \in DOMAIN teams[TeamIdx(detailsTeam)].images
    /\ OpenGallery001(detailsTeam, p)
    /\ UNCHANGED timers
    /\ last' = Op("open", NoImg)

\* navigateImage(direction) of part_001
NavigateImage001(direction) ==
    /\ isModalOpen \/ "gallery" \in shown
    /\ LET pos == NavigateImagePos(currentTeam, currentPhoto, direction)
       IN  /\ currentTeam' = pos[1]
           /\ currentPhoto' = pos[2]
           /\ UpdateImage001(pos[1], pos[2])
           /\ IF TeamIdx(pos[1]) # 0 THEN ResetImageState
                                     ELSE UNCHANGED transformVars
           /\ UpdateURL(pos[1], pos[2])
    /\ last' = Op("navigateImage", NoImg)
    /\ UNCHANGED <<teams, dragVars, modalVars, timers, callerVars, errors>>

\* ArrowUp/ArrowDown of part_001
KeyArrowUpDown001(direction) ==
    /\ isModalOpen
    /\ LET t2 == NavigateTeam(currentTeam, direction)
       IN  /\ currentTeam' = t2
           /\ UNCHANGED currentPhoto
           /\ UpdateImage001(t2, currentPhoto)
           /\ IF TeamIdx(t2) # 0 THEN ResetImageState
                                 ELSE UNCHANGED transformVars
           /\ UpdateURL(t2, currentPhoto)
    /\ last' = Op("navigateTeam", NoImg)
    /\ UNCHANGED <<teams, dragVars, modalVars, timers, callerVars, errors>>

\* closeModal() of part_001: the transform is left as it is.
CloseModal001 ==
    /\ isModalOpen \/ "gallery" \in shown
    /\ histIdx < MaxHistory
    /\ shown' = CloseAllModals(shown)
    /\ isModalOpen' = FALSE
    /\ history' = Append(SubSeq(history, 1, histIdx), NoParams)
    /\ histIdx' = histIdx + 1
    /\ last' = Op("close", NoImg)
    /\ Still
    /\ UNCHANGED <<transformVars, dragVars, detailsTeam, timers>>

\* openTeamDetailsModal() of part_001: isModalOpen is set, not tested.
OpenTeamDetailsModal001 ==
    /\ isModalOpen \/ "gallery" \in shown
    /\ TeamIdx(currentTeam) # 0
    /\ isModalOpen' = TRUE
    /\ shown' = ShowModal(shown, "teamDetails")
    /\ detailsTeam' = currentTeam
    /\ last' = Op("openTeamDetails", NoImg)
    /\ Still
    /\ UNCHANGED <<transformVars, dragVars, urlVars>>

\* adjustSize(delta): the keys =, + and -, the size buttons.
AdjustSize001(delta) ==
    /\ isModalOpen \/ "gallery" \in shown
    /\ currentScale + delta \in (UnitScale - MaxZoom * SizeStep)..
                                (UnitScale + MaxZoom * SizeStep)
    /\ currentScale' = Min(Max(currentScale + delta, MinScale), MaxScale)
    /\ IF currentScale' <= UnitScale
       THEN imageOffsetX' = 0 /\ imageOffsetY' = 0
       ELSE UNCHANGED <<imageOffsetX, imageOffsetY>>
    /\ last' = Op("adjustSize", NoImg)
    /\ Still
    /\ UNCHANGED <<currentRotation, dragVars, modalVars, urlVars>>

\* img.onload of an Image of loadImage of part_001, and the reaction of
\* updateImage: the image is shown whatever the viewer shows by now.
Img001OnLoad(l) ==
    /\ l \in loads
    /\ l.url # Undefined
    /\ cache' = [cache EXCEPT ![l.url] = l.img]
    /\ loads' = loads \ {l}
    /\ galleryImageSrc' = IF l.task.kind = "view" THEN l.url ELSE galleryImageSrc
    /\ last' = Op("load", l.img)
    /\ QueueStill001
    /\ UNCHANGED <<nextImg, callerVars, teams, posVars, transformVars, dragVars,
                   modalVars, urlVars, views, errors>>

\* img.onerror of an Image of loadImage of part_001.
Img001OnError(l) ==
    /\ l \in loads
    /\ loads' = loads \ {l}
    /\ errors' = errors + 1
    /\ last' = Op("error", l.img)
    /\ QueueStill001
    /\ UNCHANGED <<cache, nextImg, callerVars, teams, posVars, transformVars,
                   dragVars, modalVars, urlVars, galleryImageSrc, views>>

NextPart001 ==
    \/ \E c \in Clicks : ClickThumbnail001(c[1], c[2])
    \/ TimerFires001
    \/ \E d \in {-1, 1} : NavigateImage001(d)
    \/ \E d \in {-1, 1} : KeyArrowUpDown001(d)
    \/ CloseModal001
    \/ OpenStatsModal
    \/ CloseStatsModal
    \/ OpenTeamDetailsModal001
    \/ CloseTeamDetailsModal
    \/ \E p \in Photos : DetailsThumbnail001(p)
    \/ RotateImage(90)
    \/ \E delta \in {-SizeStep, SizeStep} : AdjustSize001(delta)
    \/ \E l \in loads : Cardinality(Cached) < MaxCached /\ Img001OnLoad(l)

SpecPart001 == InitPart001 /\ [][NextPart001]_vars

\* The viewer of part_001 with its loads: opening, navigation, closing, and
\* the completion of its Images.
NextLoad001 ==
    \/ \E c \in Clicks : ClickThumbnail001(c[1], c[2])
    \/ TimerFires001
    \/ \E d \in {-1, 1} : NavigateImage001(d)
    \/ \E d \in {-1, 1} : KeyArrowUpDown001(d)
    \/ CloseModal001
    \/ \E l \in loads : Cardinality(Cached) < MaxCached /\ Img001OnLoad(l)
    \/ \E l \in loads : errors < MaxErrors /\ Img001OnError(l)

SpecLoad001 == InitPart001 /\ [][NextLoad001]_vars

\* ------------------------------------------------------- wheel, keys, touch
\* Math.min(Math.max(scale, 0.3), 5.0)
ClampScale(scale) == MathMin(MathMax(scale, MinScale), MaxScale)

\* (distance / initialPinchDistance) * initialScale, in tenths, the quotient
\* cut to a tenth.  Two fingers are never at the same point: no distance is 0.
PinchScale(distance, pinchDistance, scale) ==
    IF pinchDistance = NaN \/ scale = NaN THEN NaN
    ELSE (distance * scale) \div pinchDistance

\* The distance between two fingers when the second comes down, and the
\* distances they move to.
PinchAt == 10
Distances == {1, 10, 60}

\* The pan after a change of the scale: reset when the scale is 1.0 or less.
ResetOffsetIfSmall ==
    IF LessEq(currentScale', UnitScale)
    THEN imageOffsetX' = 0 /\ imageOffsetY' = 0
    ELSE UNCHANGED <<imageOffsetX, imageOffsetY>>

\* handleWheel(e) on the gallery image: delta is 0.1 or -0.1.
HandleWheel(delta) ==
    /\ "gallery" \in shown
    /\ isModalOpen
    /\ currentScale' = ClampScale(Plus(currentScale, delta))
    /\ ResetOffsetIfSmall
    /\ last' = Op("wheel", NoImg)
    /\ Still
    /\ UNCHANGED <<currentRotation, dragVars, modalVars, urlVars>>

\* The key 0: the scale back to 1.0, the pan to (0, 0).
KeyZero ==
    /\ isModalOpen
    /\ currentScale' = UnitScale
    /\ imageOffsetX' = 0 /\ imageOffsetY' = 0
    /\ last' = Op("zoomReset", NoImg)
    /\ Still
    /\ UNCHANGED <<currentRotation, dragVars, modalVars, urlVars>>

\* A finger comes down on the gallery image at (x, y), `distance` away from
\* the finger already on the screen, if there is one: handleTouchStart(e),
\* e.touches being all the fingers on the screen.
TouchStart(x, y, distance) ==
    /\ "gallery" \in shown
    /\ touches[1] + touches[2] < MaxFingers
    /\ touches' = <<touches[1] + 1, touches[2]>>
    /\ LET n == touches[1] + touches[2] + 1
       IN  IF isModalOpen /\ n = 1
           THEN /\ isDragging' = TRUE
                /\ dragStartX' = x /\ dragStartY' = y
                /\ imageStartOffsetX' = imageOffsetX
                /\ imageStartOffsetY' = imageOffsetY
                /\ UNCHANGED <<initialPinchDistance, initialScale>>
           ELSE IF isModalOpen /\ n = 2
           THEN /\ isDragging' = FALSE
                /\ initialPinchDistance' = distance
                /\ initialScale' = currentScale
                /\ UNCHANGED <<dragStartX, dragStartY, imageStartOffsetX,
                               imageStartOffsetY>>
           ELSE UNCHANGED <<isDragging, dragStartX, dragStartY,
                            imageStartOffsetX, imageStartOffsetY,
                            initialPinchDistance, initialScale>>
    /\ last' = Op("touchstart", NoImg)
    /\ Still
    /\ UNCHANGED <<transformVars, modalVars, urlVars>>

\* A finger that came down on the gallery image moves to (x, y), `distance`
\* away from the other finger on the screen: handleTouchMove(e).
TouchMove(x, y, distance) ==
    /\ touches[1] >= 1
    /\ isModalOpen
    /\ LET n == touches[1] + touches[2]
       IN  IF n = 1 /\ isDragging
           THEN /\ imageOffsetX' = imageStartOffsetX + (x - dragStartX)
                /\ imageOffsetY' = imageStartOffsetY + (y - dragStartY)
                /\ imageOffsetX' \in -MaxPan..MaxPan
                /\ imageOffsetY' \in -MaxPan..MaxPan
                /\ UNCHANGED currentScale
           ELSE IF n = 2
           THEN /\ currentScale' = ClampScale(PinchScale(
                       distance, initialPinchDistance, initialScale))
                /\ ResetOffsetIfSmall
           ELSE UNCHANGED <<currentScale, imageOffsetX, imageOffsetY>>
    /\ last' = Op("touchmove", NoImg)
    /\ Still
    /\ UNCHANGED <<currentRotation, dragVars, modalVars, urlVars>>

\* A finger that came down on the gallery image is lifted: handleTouchEnd().
TouchEnd ==
    /\ touches[1] >= 1
    /\ touches' = <<touches[1] - 1, touches[2]>>
    /\ isDragging' = FALSE
    /\ last' = Op("touchend", NoImg)
    /\ Still
    /\ UNCHANGED <<transformVars, dragStartX, dragStartY, imageStartOffsetX,
                   imageStartOffsetY, initialPinchDistance, initialScale,
                   modalVars, urlVars>>

\* A finger comes down (d = 1) or is lifted (d = -1) outside the gallery
\* image: its events do not reach the listeners of the image.
TouchElsewhere(d) ==
    /\ touches[1] + touches[2] + d <= MaxFingers
    /\ touches[2] + d >= 0
    /\ touches' = <<touches[1], touches[2] + d>>
    /\ last' = Op("touchElsewhere", NoImg)
    /\ Still
    /\ UNCHANGED <<transformVars, isDragging, dragStartX, dragStartY,
                   imageStartOffsetX, imageStartOffsetY, initialPinchDistance,
                   initialScale, modalVars, urlVars>>

\* The scale is within MaxZoom steps of the buttons from 0.3, 1.0 or 5.0.
NearMark ==
    \E m \in {MinScale, UnitScale, MaxScale} :
        currentScale \in (m - MaxZoom * SizeStep)..(m + MaxZoom * SizeStep)

\* The viewer with every way of changing the scale, and the drag of one
\* finger.  The buttons and the wheel are used near 0.3, 1.0 and 5.0 (and
\* on a scale that is NaN), a pinch leads from one to the other.
NextZoom ==
    \/ ClickThumbnail(1, 1)
    \/ (NearMark \/ currentScale = NaN) /\ IncreaseSize
    \/ (NearMark \/ currentScale = NaN) /\ DecreaseSize
    \/ \E delta \in {-WheelStep, WheelStep} :
           (NearMark \/ currentScale = NaN) /\ HandleWheel(delta)
    \/ KeyZero
    \/ TouchStart(PressAt[1], PressAt[2], PinchAt)
    \/ \E pt \in Points, d \in Distances : TouchMove(pt[1], pt[2], d)
    \/ TouchEnd
    \/ \E d \in {-1, 1} : TouchElsewhere(d)

InitZoom == InitViewerOn(Datasets, {NoParams})
SpecZoom == InitZoom /\ [][NextZoom]_vars

\* ------------------------------------------------------------------ claims
Completed == last.op \in {"load", "error"}
TasksFor(u) == {i \in DOMAIN queue : queue[i].url = u}
LoadsFor(u) == {l \in loads : l.url = u}
ImgsOf(ls) == {l.img : l \in ls}

\* C1: in every reachable state the number of loads in flight, and the
\* counter activeLoads that tracks it, is between 0 and maxConcurrent.
C1_ActiveWithinLimit ==
    /\ activeLoads \in 0..maxConcurrent
    /\ Cardinality(ImgsOf(loads)) = activeLoads

\* A completion has just run with every slot busy again and work still waiting.
C1_Witness ==
    /\ Completed
    /\ activeLoads = maxConcurrent
    /\ Len(queue) > 0

\* C2: for one url there is never more than one load queued or in flight:
\* requests made before the load completes share it.
C2_OneLoadPerUrl ==
    \A u \in QueueUrls : Cardinality(TasksFor(u)) + Cardinality(LoadsFor(u)) <= 1

\* C4: a task that is dispatched has priority above every task left waiting,
\* or equal priority and an earlier insertion (a smaller call number).
C4_Dispatched(l) == l.img >= nextImg
C4_PriorityThenFifo ==
    [][\A l \in loads' : C4_Dispatched(l) =>
          \A i \in DOMAIN queue' :
              \/ queue'[i].priority < l.priority
              \/ /\ queue'[i].priority = l.priority
                 /\ queue'[i].waiter.id > l.task.id]_vars

\* A completion has dispatched the head of the queue while a task of the same
\* priority stays waiting behind it.
C4_Witness ==
    /\ Completed
    /\ Len(queue) > 0
    /\ \E l \in loads : l.img = nextImg - 1 /\ queue[1].priority = l.priority

\* The state after a run of calls for distinct uncached urls on an idle queue,
\* before any load has completed: every call made is still pending and has a
\* task of its own.
Burst ==
    /\ nextCaller > maxConcurrent + 1
    /\ \A c \in 1..(nextCaller - 1) : results[c] = Pending
    /\ \A l \in loads : l.attached = <<>>
    /\ Cardinality({queue[i].url : i \in DOMAIN queue} \cup {l.url : l \in loads})
           = nextCaller - 1

\* C5 as claimed: after such a run the loads in flight are those of the
\* highest priorities, whatever the order of the calls.
C5_HighestStartFirst ==
    Burst => \A l \in loads : \A i \in DOMAIN queue : l.priority >= queue[i].priority

\* C5, amended: after such a run the loads in flight are those of the first
\* maxConcurrent calls, the later calls wait in priority order, and a waiting
\* task is dispatched only by the completion of a load.
C5_WasWaiting(l) == \E i \in DOMAIN queue : queue[i].waiter = l.task
C5_FirstCallsStart ==
    [][/\ Burst' => /\ {l.task.id : l \in loads'} = 1..maxConcurrent
                    /\ {queue'[i].waiter.id : i \in DOMAIN queue'}
                           = (maxConcurrent + 1)..(nextCaller' - 1)
                    /\ \A i, j \in DOMAIN queue' :
                           i < j => queue'[i].priority >= queue'[j].priority
       /\ \A l \in loads' : C5_WasWaiting(l) /\ l.img >= nextImg
              => last'.op \in {"load", "error"}]_vars

\* The scenario of the spec: maxConcurrent 2, priorities 5, 10 and 1 in that
\* order; 5 and 10 are loading and 1 waits.
C5_Witness ==
    /\ Burst
    /\ maxConcurrent = 2
    /\ nextCaller = 4
    /\ \E l \in loads : l.task.id = 1 /\ l.priority = 5
    /\ \E l \in loads : l.task.id = 2 /\ l.priority = 10
    /\ Len(queue) = 1 /\ queue[1].priority = 1

\* C6: a free slot and a waiting request never coexist.
C6_Saturated == Len(queue) > 0 => activeLoads = maxConcurrent

\* A load has failed and the queue still holds work.
C6_Witness == last.op = "error" /\ Len(queue) > 0 /\ activeLoads = maxConcurrent

\* C7: when the load of image l fails, the caller of its task and the callers
\* attached to it are rejected, the slot is released once and the head of the
\* queue, if any, takes it; every other caller, load and cache entry stays.
C7_Waiters(l) == {l.task.id} \cup {l.attached[i].id : i \in DOMAIN l.attached}
C7_FailureIsLocal ==
    [][\A l \in loads : (last'.op = "error" /\ last'.img = l.img) =>
          /\ \A c \in C7_Waiters(l) : results[c] = Pending /\ results'[c] = Rejected
          /\ \A c \in (1..MaxRequests) \ C7_Waiters(l) : results'[c] = results[c]
          /\ l.img \notin ImgsOf(loads')
          /\ (loads \ {l}) \subseteq loads'
          /\ cache' = cache
          /\ IF queue = <<>>
             THEN /\ activeLoads' = activeLoads - 1
                  /\ queue' = <<>>
                  /\ loads' = loads \ {l}
             ELSE /\ activeLoads' = activeLoads
                  /\ queue' = Tail(queue)
                  /\ \E n \in loads' : /\ n.img = nextImg
                                        /\ n.url = Head(queue).url
                                        /\ n.task = Head(queue).waiter
                                        /\ loads' = (loads \ {l}) \cup {n}]_vars

\* A load with an attached caller has failed, both callers are rejected, and
\* the task that waited has been dispatched.
C7_Witness ==
    /\ last.op = "error"
    /\ Cardinality({c \in 1..MaxRequests : results[c] = Rejected}) >= 2
    /\ \E l \in loads : l.img = nextImg - 1 /\ l.img > last.img
    /\ Len(queue) > 0

\* C8: with finitely many calls and every started load completing, the queue
\* ends empty with no load in flight and no promise pending.
Quiescent ==
    /\ queue = <<>>
    /\ activeLoads = 0
    /\ loads = {}
    /\ \A c \in 1..MaxRequests : results[c].st # "pending"
C8_AllSettle == <>[]Quiescent

\* Every call has been made, some load has failed and some has succeeded, and
\* nothing is left to do.
C8_Witness ==
    /\ Quiescent
    /\ nextCaller > MaxRequests
    /\ \E c \in 1..MaxRequests : results[c] = Rejected
    /\ \E c \in 1..MaxRequests : results[c].st = "resolved"

\* ------------------------------------------------------------------ viewer
\* The url of the current (currentTeam, currentPhoto); "undefined" when the
\* team has no such photo, no url when there is no such team.
CurrentUrls ==
    IF TeamIdx(currentTeam) = 0 THEN {}
    ELSE {ImageAt(teams[TeamIdx(currentTeam)], currentPhoto - 1)}

\* C3: a load that resolves after the viewer has moved to another photo, of
\* the same team or of another, or has been closed is discarded: whenever the
\* displayed image is set, it is set to the placeholder or to the url of the
\* current (currentTeam, currentPhoto), never to another url.
C3_StaleResultDiscarded ==
    [][galleryImageSrc' # galleryImageSrc
          => galleryImageSrc' \in {Placeholder} \cup CurrentUrls']_vars

\* C9: an openGallery whose team is not in the dataset or whose photo is not
\* one of the team's is rejected or clamped: in no state is the gallery open
\* with currentTeam not an existing team or currentPhoto outside
\* 1..len(images of currentTeam).
C9_OpenOnlyOnValidTarget ==
    (isModalOpen /\ "gallery" \in shown)
        => /\ TeamIdx(currentTeam) # 0
           /\ currentPhoto \in 1..Len(teams[TeamIdx(currentTeam)].images)

\* openGallery(t, p) is called: by a thumbnail of the grid, by the timer of
\* handleURLParams, by a thumbnail of the team-details panel.
C10_OpenGalleryCalled(t, p) ==
    \/ ClickThumbnail(t, p)
    \/ TimerFires /\ Head(timers) = <<t, p>>
    \/ DetailsThumbnail(p) /\ detailsTeam = t

\* C10: for every (team, photo) of the dataset and from any state of the
\* viewer, openGallery(team, photo) leaves currentTeam = team, currentPhoto =
\* photo, scale 1.0, rotation 0, pan (0, 0) and the gallery modal the one
\* shown, with isModalOpen set.
C10_OpenGalleryResets ==
    [][\A i \in DOMAIN teams : \A p \in DOMAIN teams[i].images :
          C10_OpenGalleryCalled(teams[i].team_number, p)
              => /\ currentTeam' = teams[i].team_number
                 /\ currentPhoto' = p
                 /\ currentScale' = UnitScale
                 /\ currentRotation' = 0
                 /\ imageOffsetX' = 0 /\ imageOffsetY' = 0
                 /\ shown' = {"gallery"}
                 /\ isModalOpen']_vars
\* The gallery has just been opened on photo 4 of team 2 in the middle of a
\* drag that began on a panned image.
C10_Witness ==
    /\ last.op = "open"
    /\ currentTeam = 2 /\ currentPhoto = 4
    /\ isDragging /\ imageStartOffsetX # 0
    /\ currentScale = UnitScale /\ currentRotation = 0
    /\ imageOffsetX = 0 /\ imageOffsetY = 0
    /\ shown = {"gallery"} /\ isModalOpen

\* -------------------------------------------------------------- navigation
\* The current position is a photo of the dataset.
ValidPosition ==
    /\ TeamIdx(currentTeam) # 0
    /\ currentPhoto \in DOMAIN teams[TeamIdx(currentTeam)].images
\* Every team of the dataset has 4 images.
AllFull == \A i \in DOMAIN teams : Len(teams[i].images) = PhotosPerTeam
\* The smallest and the largest number of a non-empty set.
Least(S) == CHOOSE n \in S : \A m \in S : n <= m
Greatest(S) == CHOOSE n \in S : \A m \in S : n >= m
\* The team after and before team n in ascending teamNumber order, cyclically.
NextTeam(n) ==
    IF \E m \in TeamNumbers : m > n
    THEN Least({m \in TeamNumbers : m > n}) ELSE Least(TeamNumbers)
PrevTeam(n) ==
    IF \E m \in TeamNumbers : m < n
    THEN Greatest({m \in TeamNumbers : m < n}) ELSE Greatest(TeamNumbers)
ImagesOf(n) == teams[TeamIdx(n)].images

RECURSIVE Walk(_, _, _)
Walk(pos, direction, n) ==
    IF n = 0 THEN <<pos>>
    ELSE <<pos>> \o Walk(NavigateImagePos(pos[1], pos[2], direction),
                         direction, n - 1)
\* The (team, photo) pairs of the dataset.
AllPositions ==
    UNION {{<<teams[i].team_number, p>> : p \in DOMAIN teams[i].images} :
           i \in DOMAIN teams}

\* C12: in a dataset of teams with 4 images each, from every (team, photo),
\* navigateImage(+1) applied 4 x totalTeams times returns to the starting
\* (team, photo) and visits every (team, photo) of the dataset exactly once
\* on the way.
C12_FullCycleCloses ==
    AllFull =>
        \A start \in AllPositions :
            LET n == PhotosPerTeam * Len(teams)
                w == Walk(start, 1, n)
                visited == {w[k] : k \in 1..n}
            IN  /\ w[n + 1] = start
                /\ visited = AllPositions
                /\ Cardinality(visited) = n
\* Three teams of 4 images, out of order in the dataset: navigateImage has
\* closed the cycle from (3, 4), whose load the view waits for, to (1, 1).
C12_Witness ==
    /\ last.op = "navigateImage"
    /\ TeamNumbers = {1, 2, 3} /\ AllFull
    /\ currentTeam = 1 /\ currentPhoto = 1
    /\ \E k \in DOMAIN queue :
           queue[k].url = "3/4" /\ queue[k].waiter.kind = "view"

\* C13: also in a dataset with a team of fewer than 4 images navigateImage
\* wraps at the team's len(images): forward from its last photo goes to photo
\* 1 of the next team, back into it lands on its last photo, and currentPhoto
\* never indexes past the images of the current team.
C13_WrapsAtTeamLength ==
    [][\A d \in {-1, 1} :
          (NavigateImage(d) /\ ValidPosition)
              => /\ ValidPosition'
                 /\ IF d = 1 /\ currentPhoto = Len(ImagesOf(currentTeam))
                    THEN /\ currentTeam' = NextTeam(currentTeam)
                         /\ currentPhoto' = 1
                    ELSE IF d = -1 /\ currentPhoto = 1
                    THEN /\ currentTeam' = PrevTeam(currentTeam)
                         /\ currentPhoto' = Len(ImagesOf(PrevTeam(currentTeam)))
                    ELSE /\ currentTeam' = currentTeam
                         /\ currentPhoto' = currentPhoto + d]_vars

\* C14: after every navigateTeam(+1) or navigateTeam(-1) done as a user
\* action (ArrowDown, ArrowUp) currentPhoto is 1, whatever photo was shown.
C14_TeamStepResetsPhoto ==
    [][\A d \in {-1, 1} : KeyArrowUpDown(d) => currentPhoto' = 1]_vars

\* The team reached from team n by k successive navigateTeam(direction).
RECURSIVE TeamWalk(_, _, _)
TeamWalk(n, direction, k) ==
    IF k = 0 THEN n ELSE TeamWalk(NavigateTeam(n, direction), direction, k - 1)

\* C15: navigateTeam(+1)/(-1) moves currentTeam to the next/previous team in
\* ascending teamNumber order, wrapping from the highest to the lowest and
\* back, whatever the order of the teams in the dataset; navigateTeam(+1)
\* applied totalTeams times returns to the starting team.
C15_TeamOrderIsAscending ==
    /\ [](\A n \in TeamNumbers : TeamWalk(n, 1, Len(teams)) = n)
    /\ [][\A d \in {-1, 1} :
             (KeyArrowUpDown(d) /\ TeamIdx(currentTeam) # 0)
                 => currentTeam' = IF d = 1 THEN NextTeam(currentTeam)
                                            ELSE PrevTeam(currentTeam)]_vars
\* The dataset lists teams 2, 1, 3: the gallery was opened on team 2, whose
\* load the view is attached to, and ArrowUp has led to team 1.
C15_Witness ==
    /\ last.op = "navigateTeam"
    /\ Len(teams) = 3 /\ teams[1].team_number = 2
    /\ currentTeam = 1 /\ currentPhoto = 2
    /\ \E l \in loads : l.url = "2/2" /\ l.attached # <<>>

\* ------------------------------------------------------------------ modals
\* C16: from GalleryOpen or TeamDetailsOpen, close() (the close button, a
\* click on the overlay, Escape) leaves no modal visible, the viewer closed
\* and scale 1.0, rotation 0, pan (0, 0), in either viewer.
C16_CloseClearsTransform ==
    [][((CloseModal \/ CloseModal001)
            /\ shown \cap {"gallery", "teamDetails"} # {})
          => /\ shown' = {}
             /\ ~isModalOpen'
             /\ currentScale' = UnitScale
             /\ currentRotation' = 0
             /\ imageOffsetX' = 0 /\ imageOffsetY' = 0]_vars

\* C17: TeamDetailsOpen is entered only from GalleryOpen (openTeamDetails has
\* no effect when the gallery is not the visible modal), and closing the team
\* details always returns to GalleryOpen with currentTeam and currentPhoto
\* unchanged, in either viewer.
C17_TeamDetailsOnlyFromGallery ==
    [][/\ ("teamDetails" \in shown' /\ "teamDetails" \notin shown)
              => shown = {"gallery"}
       /\ (CloseTeamDetailsModal /\ "teamDetails" \in shown)
              => /\ shown' = {"gallery"}
                 /\ isModalOpen'
                 /\ UNCHANGED posVars]_vars

\* C18: in every state at most one of the gallery, stats and team-details
\* modals is visible, for any sequence of opens and closes.
C18_OneModalVisible == shown \subseteq Modals /\ Cardinality(shown) <= 1
\* The stats modal has been opened while the gallery was open, and is the
\* only modal visible.
C18_Witness ==
    /\ last.op = "openStats"
    /\ isModalOpen
    /\ shown = {"stats"}

\* -------------------------------------------------------------------- URL
\* The query of the current history entry: the URL in the address bar.
CurrentQuery == history[histIdx]
ViewOps == {"open", "timer", "navigateImage", "navigateTeam"}

\* C19: after every openGallery, navigateImage and navigateTeam the query of
\* the URL is team = currentTeam and photo = currentPhoto, and after
\* closeModal the URL is the bare path, without team and photo.
C19_UrlFollowsViewer ==
    [][/\ last'.op \in ViewOps
              => CurrentQuery' = <<currentTeam', currentPhoto'>>
       /\ last'.op = "close" => CurrentQuery' = NoParams]_vars
\* ArrowDown has led from (1, 1) to (2, 1), the URL said so, and the close
\* has pushed the bare path after it.
C19_Witness ==
    /\ last.op = "close"
    /\ histIdx = 2
    /\ history = <<<<2, 1>>, NoParams>>
    /\ currentTeam = 2 /\ currentPhoto = 1

\* C20: openGallery, navigateImage and navigateTeam replace the current
\* history entry (the history keeps its length and its other entries), each
\* closeModal pushes exactly one entry after the current one; so when the
\* viewer is closed after viewing photos, the URL then naming the photo
\* viewed last, one step back from the new entry leads to that URL.
C20_ReplaceThenPush ==
    [][/\ last'.op \in ViewOps
              => /\ histIdx' = histIdx
                 /\ Len(history') = Len(history)
                 /\ \A i \in DOMAIN history \ {histIdx} :
                        history'[i] = history[i]
       /\ last'.op = "close"
              => /\ histIdx' = histIdx + 1
                 /\ Len(history') = histIdx'
                 /\ \A i \in 1..histIdx : history'[i] = history[i]
                 /\ CurrentQuery = <<currentTeam, currentPhoto>>
                        => history'[histIdx' - 1] = <<currentTeam', currentPhoto'>>]_vars
\* Two photos have been viewed on one history entry, (1, 1) and then (1, 2),
\* and the close has pushed the bare path after it.
C20_Witness ==
    /\ last.op = "close"
    /\ views = 2
    /\ histIdx = 2
    /\ history = <<<<1, 2>>, NoParams>>
    /\ currentTeam = 1 /\ currentPhoto = 2
    /\ \E l \in loads : l.url = "1/1" /\ l.attached # <<>>

\* ------------------------------------------------------------ URL restore
\* The query names a photo of the dataset.
Denotes(q) ==
    \E i \in DOMAIN teams :
        teams[i].team_number = q[1] /\ q[2] \in DOMAIN teams[i].images

\* C21: the turn that reads the URL (the load of the page, a popstate) leaves
\* the viewer as it was and, when the URL names a photo of the dataset, defers
\* one open of that (team, photo); a deferred open is never dropped, and when
\* it runs, in a later turn, it leaves the gallery the visible modal at
\* exactly that (team, photo).
C21_UrlOpensDeferred ==
    /\ [](last.op = "init"
             => /\ shown = {} /\ ~isModalOpen
                /\ Denotes(CurrentQuery) => timers = <<CurrentQuery>>)
    /\ [][/\ last'.op = "popstate"
                 => /\ UNCHANGED <<posVars, modalVars, transformVars,
                                   galleryImageSrc>>
                    /\ Denotes(CurrentQuery')
                           => timers' = Append(timers, CurrentQuery')
          /\ last'.op = "timer"
                 => /\ timers # <<>>
                    /\ timers' = Tail(timers)
                    /\ Denotes(Head(timers))
                           => /\ shown' = {"gallery"}
                              /\ isModalOpen'
                              /\ <<currentTeam', currentPhoto'>> = Head(timers)
          /\ last'.op \notin {"popstate", "timer"} => timers' = timers]_vars
\* The gallery was opened on (2, 4) and closed; a step back in the history
\* has read ?team=2&photo=4 and the deferred open has run.
C21_Witness ==
    /\ last.op = "timer"
    /\ histIdx = 1 /\ Len(history) = 2
    /\ history[1] = <<2, 4>>
    /\ shown = {"gallery"} /\ isModalOpen
    /\ currentTeam = 2 /\ currentPhoto = 4

\* ---------------------------------------------------------------- requests
\* The photo at url u has been asked of the queue with priority pr or more:
\* it is cached, its load is in flight, or a task of that priority waits.
Requested(u, pr) ==
    \/ cache[u] # NoImg
    \/ \E l \in loads : l.url = u
    \/ \E k \in DOMAIN queue : queue[k].url = u /\ queue[k].priority >= pr
\* The view waits for the photo at url u: on a load in flight, or on a task
\* queued with the priority of the view.
ViewRequested(u) ==
    \/ \E l \in loads :
           /\ l.url = u
           /\ \/ l.task.kind = "view"
              \/ \E i \in DOMAIN l.attached : l.attached[i].kind = "view"
    \/ \E k \in DOMAIN queue :
           /\ queue[k].url = u
           /\ queue[k].priority = ViewPriority
           /\ queue[k].waiter.kind = "view"
\* The previous and the next photo of the current team, where it has them.
C22_SameTeam ==
    {ImageAt(teams[TeamIdx(currentTeam)], currentPhoto - 2),
     ImageAt(teams[TeamIdx(currentTeam)], currentPhoto)} \ {Undefined}
\* The first two photos of the previous and of the next team.
FirstTwo(n) == {ImagesOf(n)[j] : j \in DOMAIN ImagesOf(n) \cap 1..2}
C22_OtherTeams ==
    FirstTwo(PrevTeam(currentTeam)) \cup FirstTwo(NextTeam(currentTeam))
\* The current photo is requested for the view, at a priority above every
\* other in use, and the neighbours of its team at the elevated priority.
C22_CurrentAndSameTeam ==
    /\ \A u \in CurrentUrls : ViewRequested(u)
    /\ ViewPriority > AdjacentPriority
    /\ AdjacentPriority > FirstPreloadPriority
    /\ AdjacentPriority > PreloadPriority
    /\ \A u \in C22_SameTeam : Requested(u, AdjacentPriority)

\* C22: every openGallery and every navigation to a photo of the dataset
\* requests that photo at the highest priority in use, and at the elevated
\* priority the previous and next photo of its team and the first two photos
\* of the previous and of the next team.
C22_ViewRequestsNeighbourhood ==
    [][(last'.op \in ViewOps /\ ValidPosition')
          => /\ C22_CurrentAndSameTeam'
             /\ \A u \in C22_OtherTeams' : Requested(u, AdjacentPriority)']_vars

\* C23: refresh(url, priority) leaves url out of the cache with a load of it
\* queued or in flight and its promise pending, waiting on that load; and a
\* pending promise is resolved only by the completion of a load, with the
\* image of that load, which is none of the images cached before.
C23_WaitsOn(c, u) ==
    \/ \E l \in LoadsFor(u) :
           \/ l.task = Caller(c)
           \/ \E i \in DOMAIN l.attached : l.attached[i] = Caller(c)
    \/ \E k \in TasksFor(u) : queue[k].waiter = Caller(c)
C23_RefreshReloads ==
    [][/\ \A u \in QueueUrls, p \in Priorities, n \in {nextCaller} :
              CallRefresh(u, p)
                  => /\ cache'[u] = NoImg
                     /\ results'[n] = Pending
                     /\ C23_WaitsOn(n, u)'
       /\ \A c \in 1..MaxRequests :
              (results[c] = Pending /\ results'[c].st = "resolved")
                  => /\ last'.op = "load"
                     /\ results'[c].img = last'.img
                     /\ \A u \in QueueUrls : cache[u] # last'.img]_vars
\* The first call's url was loaded and cached; the second call, a refresh of
\* it, has emptied the cache and waits for a new load.
C23_Witness ==
    /\ last.op = "refresh"
    /\ nextCaller = 3
    /\ results[1].st = "resolved"
    /\ results[2] = Pending
    /\ Cached = {}
    /\ activeLoads = 1

\* ------------------------------------------------------------ load failure
\* The load carries the reaction of updateImage: its task is the view's, or
\* the view is attached to it.
CarriesView(l) ==
    \/ l.task.kind = "view"
    \/ \E i \in DOMAIN l.attached : l.attached[i].kind = "view"
\* No other load or waiting task of the url of l carries a view: l is the
\* load of the latest request for the photo.
LatestView(l) ==
    /\ CarriesView(l)
    /\ \A m \in loads \ {l} : m.url = l.url => ~CarriesView(m)
    /\ \A k \in DOMAIN queue :
           queue[k].url = l.url => queue[k].waiter.kind # "view"
GalleryOpen == isModalOpen /\ shown = {"gallery"}
\* The gallery is open on a photo whose load has failed and has not been
\* requested again: it is not cached and no view waits for it.
ViewFailed ==
    /\ GalleryOpen
    /\ ValidPosition
    /\ errors > 0
    /\ \A u \in CurrentUrls : cache[u] = NoImg /\ ~ViewRequested(u)

\* C24: when the load of the photo the gallery is open on fails, the
\* displayed image is the placeholder, the gallery stays open on the same
\* (team, photo), and no load of that url starts, then or later, before an
\* open or a navigation; in the viewer of app_template.js and of part_001.
C24_FailureShowsPlaceholder ==
    [][/\ \A l \in loads :
              (/\ last'.op = "error" /\ last'.img = l.img
               /\ LatestView(l) /\ l.url \in CurrentUrls /\ GalleryOpen)
                  => /\ galleryImageSrc' = Placeholder
                     /\ UNCHANGED <<posVars, modalVars>>
                     /\ \A n \in loads' \ loads : n.url # l.url
       /\ (ViewFailed /\ last'.op \notin ViewOps)
              => \A n \in loads' \ loads : n.url \notin CurrentUrls]_vars

\* C25: when the load of a photo the viewer has left fails while the image of
\* the current photo is displayed, the displayed image stays as it is.
C25_StaleFailureDiscarded ==
    [][\A l \in loads :
          (/\ last'.op = "error" /\ last'.img = l.img
           /\ l.url \notin CurrentUrls
           /\ galleryImageSrc \in CurrentUrls)
              => galleryImageSrc' = galleryImageSrc]_vars

\* ------------------------------------------------------------------- scale
\* A step of the scale from s by delta that passes a bound ends on the bound.
C26_Step(s, delta) ==
    /\ s + delta >= MaxScale => currentScale' = MaxScale
    /\ s + delta <= MinScale => currentScale' = MinScale

\* C26: whatever zoom-in, zoom-out, wheel, pinch and zoom-reset operations
\* are made, the scale is within [0.3, 5.0]; an operation that would pass a
\* bound leaves the scale on that bound, and so does its repetition.
C26_ScaleClamped ==
    /\ [](currentScale \in MinScale..MaxScale)
    /\ [][/\ IncreaseSize => C26_Step(currentScale, SizeStep)
          /\ DecreaseSize => C26_Step(currentScale, -SizeStep)
          /\ \A delta \in {-WheelStep, WheelStep} :
                 HandleWheel(delta) => C26_Step(currentScale, delta)
          /\ KeyZero => currentScale' = UnitScale]_vars

\* The operations that change the scale: the size buttons and keys, the
\* wheel, the key 0, a move of two fingers.
ScaleOps == {"increaseSize", "decreaseSize", "wheel", "zoomReset", "adjustSize"}
C27_ScaleChanging ==
    \/ last'.op \in ScaleOps
    \/ last'.op = "touchmove" /\ touches[1] + touches[2] = 2

\* C27: from every scale and pan, an operation that changes the scale and
\* leaves it at 1.0 or less leaves the pan at (0, 0).
C27_SmallScaleResetsPan ==
    [][(C27_ScaleChanging /\ LessEq(currentScale', UnitScale))
          => imageOffsetX' = 0 /\ imageOffsetY' = 0]_vars

\* ---------------------------------------------------------------- rotation
QuarterTurns == {0, 90, 180, 270}
RECURSIVE RotateTimes(_, _, _)
RotateTimes(rotation, degrees, n) ==
    IF n = 0 THEN rotation
    ELSE RotateTimes(RotateBy(rotation, degrees), degrees, n - 1)

\* C28: the rotation is always one of 0, 90, 180, 270; rotateImage(90) and
\* rotateImage(-90) turn it by a quarter to the right and to the left, so
\* that four rotateImage(90) lead back to the rotation they began with and
\* rotateImage(90) followed by rotateImage(-90) changes nothing.
C28_QuarterTurns ==
    /\ [](/\ currentRotation \in QuarterTurns
          /\ RotateTimes(currentRotation, 90, 4) = currentRotation
          /\ RotateBy(RotateBy(currentRotation, 90), -90) = currentRotation
          /\ RotateBy(RotateBy(currentRotation, -90), 90) = currentRotation)
    /\ [][\A degrees \in {-90, 90} :
             RotateImage(degrees)
                 => currentRotation' = (currentRotation + degrees + 360) % 360]_vars
\* rotateImage(-90) on an image that was not rotated: 270.
C28_Witness ==
    /\ last.op = "rotate"
    /\ currentRotation = 270
    /\ "gallery" \in shown

\* ------------------------------------------------------------------- cache
\* C29: the cache is bounded by a capacity that does not grow with the urls
\* requested: when more distinct urls have been requested and loaded than it
\* has room for, entries have been removed, so that the cache never holds
\* every url of a run that requested more of them than the capacity.
C29_CacheBounded == Cardinality(Cached) <= Cardinality(QueueUrls) - 1

\* -------------------------------------------------------------------- keys
\* What a key does: Escape, the arrows, r and l, i, +, = and -, 0.
KeyOps == {"close", "navigateImage", "navigateTeam", "rotate",
           "openTeamDetails", "increaseSize", "decreaseSize", "zoomReset"}

\* C30: while neither the gallery nor the team details are visible (no modal,
\* or the stats), a key press changes none of currentTeam, currentPhoto,
\* scale, rotation, pan, the visible modal and the URL.
C30_KeysNeedViewer ==
    [][(shown \cap {"gallery", "teamDetails"} = {} /\ last'.op \in KeyOps)
          => UNCHANGED <<posVars, transformVars, shown, history, histIdx>>]_vars

\* ------------------------------------------------- the mouse handlers, whole
\* handleMouseDown(e): nothing while the modal is closed.
HandleMouseDown(x, y) ==
    /\ IF isModalOpen
       THEN /\ isDragging' = TRUE
            /\ dragStartX' = x
            /\ dragStartY' = y
            /\ imageStartOffsetX' = imageOffsetX
            /\ imageStartOffsetY' = imageOffsetY
       ELSE UNCHANGED <<isDragging, dragStartX, dragStartY, imageStartOffsetX,
                        imageStartOffsetY>>
    /\ last' = Op("mousedown", NoImg)
    /\ Still
    /\ UNCHANGED <<transformVars, touchVars, modalVars, urlVars>>

\* handleMouseMove keeping the pointer's position and dropping the pan the
\* drag started from.
HandleMouseMoveFromZero(x, y) ==
    /\ IF isDragging /\ isModalOpen
       THEN /\ imageOffsetX' = x - dragStartX
            /\ imageOffsetY' = y - dragStartY
            /\ imageOffsetX' \in -MaxPan..MaxPan
            /\ imageOffsetY' \in -MaxPan..MaxPan
       ELSE UNCHANGED <<imageOffsetX, imageOffsetY>>
    /\ last' = Op("mousemove", NoImg)
    /\ Still
    /\ UNCHANGED <<currentRotation, currentScale, dragVars, modalVars, urlVars>>

\* handleMouseMove(e), a listener of the document: nothing outside a drag
\* and while the modal is closed.
HandleMouseMove(x, y) ==
    /\ IF isDragging /\ isModalOpen
       THEN /\ imageOffsetX' = imageStartOffsetX + (x - dragStartX)
            /\ imageOffsetY' = imageStartOffsetY + (y - dragStartY)
            /\ imageOffsetX' \in -MaxPan..MaxPan
            /\ imageOffsetY' \in -MaxPan..MaxPan
       ELSE UNCHANGED <<imageOffsetX, imageOffsetY>>
    /\ last' = Op("mousemove", NoImg)
    /\ Still
    /\ UNCHANGED <<currentRotation, currentScale, dragVars, modalVars, urlVars>>

\* handleMouseUp(), a listener of the document.
HandleMouseUp ==
    /\ isDragging' = FALSE
    /\ last' = Op("mouseup", NoImg)
    /\ Still
    /\ UNCHANGED <<transformVars, dragStartX, dragStartY, imageStartOffsetX,
                   imageStartOffsetY, touchVars, modalVars, urlVars>>

\* The viewer with the drag of the mouse and of a finger, opened, navigated
\* and closed meanwhile.  The mouse events reach their handlers whether the
\* modal is open or not.
NextDrag ==
    \/ \E c \in Clicks : ClickThumbnail(c[1], c[2])
    \/ \E d \in {-1, 1} : NavigateImage(d)
    \/ KeyArrowUpDown(1)
    \/ CloseModal
    \/ \E pt \in Points : HandleMouseDown(pt[1], pt[2])
    \/ \E pt \in Points : HandleMouseMove(pt[1], pt[2])
    \/ HandleMouseUp
    \/ \E pt \in Points : TouchStart(pt[1], pt[2], PinchAt)
    \/ \E pt \in Points, d \in Distances : TouchMove(pt[1], pt[2], d)
    \/ TouchEnd
    \/ \E d \in {-1, 1} : TouchElsewhere(d)

InitDrag == InitViewerOn(Datasets, {NoParams})
SpecDrag == InitDrag /\ [][NextDrag]_vars

\* ------------------------------------------------ the two variants, side by side
\* The key 0 of part_001: resetImageState(), the rotation included.
KeyZero001 ==
    /\ isModalOpen
    /\ ResetImageState
    /\ last' = Op("zoomReset", NoImg)
    /\ Still
    /\ UNCHANGED <<dragVars, modalVars, urlVars>>

\* The operations of the viewer of app_template.js, one at a time, no load
\* completing meanwhile.
NextOps ==
    \/ \E c \in Clicks : ClickThumbnail(c[1], c[2])
    \/ TimerFires
    \/ \E d \in {-1, 1} : NavigateImage(d)
    \/ \E d \in {-1, 1} : KeyArrowUpDown(d)
    \/ \E degrees \in {-90, 90} : RotateImage(degrees)
    \/ currentScale < UnitScale + MaxZoom * SizeStep /\ IncreaseSize
    \/ currentScale > UnitScale - MaxZoom * SizeStep /\ DecreaseSize
    \/ KeyZero
    \/ OpenStatsModal
    \/ CloseStatsModal
    \/ OpenTeamDetailsModal
    \/ CloseTeamDetailsModal
    \/ \E p \in Photos : DetailsThumbnail(p)
    \/ CloseModal

InitOps == InitViewerOn(Datasets, InitialQueries001)
SpecOps == InitOps /\ [][NextOps]_vars

\* ------------------------------------------------------------ the drag
\* One pointer is on the screen (or none, before it comes down): the mouse,
\* or the only finger.
C31_Down(pt) ==
    \/ HandleMouseDown(pt[1], pt[2])
    \/ touches = <<0, 0>> /\ TouchStart(pt[1], pt[2], PinchAt)
C31_Move(pt) ==
    \/ HandleMouseMove(pt[1], pt[2])
    \/ touches = <<1, 0>> /\ \E d \in Distances : TouchMove(pt[1], pt[2], d)
C31_Up == HandleMouseUp \/ TouchEnd

\* C31: a pointer-down on the image while the viewer is open starts a drag
\* that records the pointer's position and the current pan; a pointer-move
\* during the drag sets the pan to the recorded pan plus the pointer's
\* position minus the recorded position; a pointer-up ends the drag; a
\* pointer-down while the viewer is closed and a pointer-move outside a drag
\* leave the pan as it is.
C31_SinglePointerDrag ==
    [][\A pt \in Points :
        /\ C31_Down(pt) /\ isModalOpen =>
               /\ isDragging'
               /\ dragStartX' = pt[1] /\ dragStartY' = pt[2]
               /\ imageStartOffsetX' = imageOffsetX
               /\ imageStartOffsetY' = imageOffsetY
               /\ UNCHANGED <<imageOffsetX, imageOffsetY>>
        /\ C31_Down(pt) /\ ~isModalOpen =>
               UNCHANGED <<imageOffsetX, imageOffsetY, isDragging>>
        /\ C31_Move(pt) /\ isDragging /\ isModalOpen =>
               /\ imageOffsetX' = imageStartOffsetX + (pt[1] - dragStartX)
               /\ imageOffsetY' = imageStartOffsetY + (pt[2] - dragStartY)
               /\ isDragging'
        /\ C31_Move(pt) /\ ~isDragging =>
               UNCHANGED <<imageOffsetX, imageOffsetY>>
        /\ C31_Up => ~isDragging']_vars

\* A drag that started away from the origin, from a pan other than (0, 0),
\* has moved the image.
C31_Witness ==
    /\ last.op = "mousemove"
    /\ isDragging /\ isModalOpen
    /\ dragStartX # 0 /\ imageStartOffsetX # 0
    /\ imageOffsetX # imageStartOffsetX

\* ------------------------------------------------------- add() of a cached url
\* C32: add(url) for a url the cache holds resolves with the cached image
\* and starts no load: the queue, activeLoads, the loads in flight, the
\* loading promises and the cache are left as they are.
C32_CachedAddResolves ==
    [][\A u \in QueueUrls, p \in Priorities :
        CallAdd(u, p) /\ cache[u] # NoImg =>
            /\ results'[nextCaller] = Resolved(cache[u])
            /\ UNCHANGED <<queue, activeLoads, loads, cache, loadingPromises,
                           nextImg>>]_vars

\* An add() was answered at once while a load was active and a task waiting.
C32_Witness ==
    /\ last.op = "add"
    /\ nextCaller > 1
    /\ results[nextCaller - 1].st = "resolved"
    /\ \E u \in QueueUrls :
           cache[u] # NoImg /\ cache[u] = results[nextCaller - 1].img
    /\ activeLoads > 0
    /\ Len(queue) > 0

\* ------------------------------------------- the deferred open and the user
\* The steps the user views a photo with.
UserViewOps == {"open", "navigateImage", "navigateTeam"}

\* C33: a deferred open never overrides a later action of the user: when
\* the user has opened or navigated to another (team, photo) after the URL
\* was read, the firing of the timer leaves the viewer's position and the
\* URL at the user's (team, photo).
C33_UserActionWins ==
    [][TimerFires /\ last.op \in UserViewOps /\ isModalOpen
          /\ <<currentTeam, currentPhoto>> # Head(timers) =>
            /\ UNCHANGED <<currentTeam, currentPhoto>>
            /\ CurrentQuery' = CurrentQuery]_vars

\* ------------------------------------------------------ the flag isModalOpen
\* C34: isModalOpen is true exactly when the gallery modal or the
\* team-details modal is visible.
C34_FlagFollowsModals ==
    isModalOpen <=> ("gallery" \in shown \/ "teamDetails" \in shown)

\* ------------------------------------------------------ the URL and the viewer
\* C35: whenever the gallery is open and no deferred open is pending, the
\* team and photo of the URL are currentTeam and currentPhoto.
C35_UrlMatchesViewer ==
    GalleryOpen /\ timers = <<>> =>
        CurrentQuery = <<currentTeam, currentPhoto>>

\* ------------------------------------------- a drag across close and navigation
\* C36: a drag does not survive a close or a navigation: the pointer-move
\* that follows an open or a navigation, with no pointer-down in between,
\* leaves the pan at (0, 0).
C36_DragEndsWithView ==
    [][(\E pt \in Points : C31_Move(pt))
          /\ last.op \in UserViewOps /\ TeamIdx(currentTeam) # 0 =>
            imageOffsetX' = 0 /\ imageOffsetY' = 0]_vars

\* ------------------------------------------------------- the two variants
\* What the user sees of the viewer: the position, the transform, the flag,
\* the visible modal and the URL.
Observed ==
    <<currentTeam, currentPhoto, currentScale, currentRotation, imageOffsetX,
      imageOffsetY, isModalOpen, shown, history[histIdx]>>

\* The viewer of part_001 can take the step A001 from the state this step
\* starts in, and ends where this step ends in what the user sees.
SameIn001(A001) == \E o \in {Observed'} : ENABLED (A001 /\ Observed' = o)

\* C37: the viewers of app_template.js and of part_001 are the same state
\* machine in what the user sees: from the same state, an operation of the
\* one and the same operation of the other end in the same position,
\* transform, flag, visible modal and URL.
C37_VariantsAgree ==
    [][/\ \A c \in Clicks :
              ClickThumbnail(c[1], c[2]) => SameIn001(ClickThumbnail001(c[1], c[2]))
       /\ TimerFires => SameIn001(TimerFires001)
       /\ \A d \in {-1, 1} : NavigateImage(d) => SameIn001(NavigateImage001(d))
       /\ \A d \in {-1, 1} : KeyArrowUpDown(d) => SameIn001(KeyArrowUpDown001(d))
       /\ IncreaseSize => SameIn001(AdjustSize001(SizeStep))
       /\ DecreaseSize => SameIn001(AdjustSize001(-SizeStep))
       /\ KeyZero => SameIn001(KeyZero001)
       /\ OpenTeamDetailsModal => SameIn001(OpenTeamDetailsModal001)
       /\ \A p \in Photos : DetailsThumbnail(p) => SameIn001(DetailsThumbnail001(p))
       /\ CloseModal => SameIn001(CloseModal001)]_vars

\* ------------------------------------------------------------ a failed load
\* The caller's promise waits on a task of the queue or on a load in flight
\* other than the one of image img.
C38_Carried(q, u, w, img) ==
    \/ \E i \in DOMAIN q.queue : q.queue[i].url = u /\ q.queue[i].waiter = w
    \/ \E l2 \in q.loads :
           /\ l2.url = u /\ l2.img # img
           /\ l2.task = w \/ \E j \in DOMAIN l2.attached : l2.attached[j] = w

\* C38: a failed load leaves no entry in the cache and no loading record:
\* the failure writes nothing to the cache, the image is neither recorded as
\* loading nor in flight afterwards, and an add() of the same url made next
\* (the url not being cached) is not settled with the failure: it waits on
\* a task of the queue or on a load other than the failed one.
C38_FailureForgotten ==
    [][\A l \in loads : ImgOnError(l) =>
          /\ cache' = cache
          /\ \A u \in DOMAIN loadingPromises : loadingPromises'[u] # l.img
          /\ \A l2 \in loads' : l2.img # l.img
          /\ cache[l.url] = NoImg =>
                 \A p \in Priorities :
                     LET q == Add(PQ, l.url, p, Caller(nextCaller))'
                     IN  /\ q.out = <<>>
                         /\ C38_Carried(q, l.url, Caller(nextCaller'), l.img)]_vars

\* A load has failed, a caller was rejected, the url it asked for is in no
\* cache entry, record or load, and a further call can be made.
C38_Witness ==
    /\ last.op = "error"
    /\ \E c \in DOMAIN results : results[c] = Rejected
    /\ \A u \in DOMAIN cache : cache[u] # last.img /\ loadingPromises[u] # last.img
    /\ \A l \in loads : l.img # last.img
    /\ nextCaller <= MaxRequests

\* ------------------------------------------------------- the team details
\* C39: while the team-details modal is visible the team it shows is
\* currentTeam: a step that neither closes nor renders the panel leaves
\* currentTeam and currentPhoto as they are.
C39_DetailsShowCurrentTeam ==
    [][/\ "teamDetails" \in shown' => detailsTeam' = currentTeam'
       /\ "teamDetails" \in shown /\ "teamDetails" \in shown'
             /\ last'.op # "openTeamDetails" =>
              UNCHANGED <<currentTeam, currentPhoto>>]_vars

====
